---- MODULE Spec2Model ----
(***************************************************************************)
(* Model of shadcn-index-generator: generateIndex (index.ts), its helpers  *)
(* extractExports / shouldBeType, the default configuration (config.ts)    *)
(* and the command line action (cli.ts).                                   *)
(*                                                                         *)
(* Text is modelled as TLA+ strings, character by character where the code *)
(* looks at characters (regular expressions, path.extname, Array.sort).    *)
(* A parsed source file (ts.SourceFile) is a sequence of statement nodes;  *)
(* the TypeScript parser itself is a library and is not modelled: a file   *)
(* of the directory carries both its text and its syntax tree.             *)
(***************************************************************************)
EXTENDS Integers, Sequences, FiniteSets, TLC

(***************************************************************************)
(* Bounds                                                                  *)
(***************************************************************************)
MaxFiles == 3
MaxRuns == 2

(***************************************************************************)
(* Characters and strings                                                  *)
(***************************************************************************)
\* printable ASCII in code order: codes 32 to 95, and codes 97 to 126
AsciiLow == " !\"#$%&'()*+,-./0123456789:;<=>?@ABCDEFGHIJKLMNOPQRSTUVWXYZ[\\]^_"

AsciiHigh == "abcdefghijklmnopqrstuvwxyz{|}~"

UpperChars == "ABCDEFGHIJKLMNOPQRSTUVWXYZ"

LowerChars == "abcdefghijklmnopqrstuvwxyz"

DigitChars == "0123456789"

CharAt(s, k) == SubSeq(s, k, k)

\* position of the one-character string c in table t, 0 when absent
IndexIn(c, t) ==
    IF \E k \in 1..Len(t) : CharAt(t, k) = c
    THEN CHOOSE k \in 1..Len(t) : CharAt(t, k) = c
    ELSE 0

\* the characters of a table, as a set of one-character strings
CharsOf(t) == { CharAt(t, k) : k \in 1..Len(t) }

CodeTable ==
    [c \in CharsOf(AsciiLow) \cup CharsOf(AsciiHigh) |->
        IF IndexIn(c, AsciiLow) > 0 THEN IndexIn(c, AsciiLow) + 31 ELSE IndexIn(c, AsciiHigh) + 96]

\* UTF-16 code unit of a printable ASCII character (String.prototype.charCodeAt)
CharCode(c) == CodeTable[c]

LowerTable == [c \in CharsOf(UpperChars) |-> CharAt(LowerChars, IndexIn(c, UpperChars))]

\* case folding of one character under the RegExp i flag
LowerChar(c) == IF c \in DOMAIN LowerTable THEN LowerTable[c] ELSE c

RECURSIVE ToLower(_)
ToLower(s) == IF Len(s) = 0 THEN "" ELSE LowerChar(CharAt(s, 1)) \o ToLower(Tail(s))

WordChars == CharsOf(UpperChars) \cup CharsOf(LowerChars) \cup CharsOf(DigitChars) \cup {"_"}

\* the class \w of a regular expression: [A-Za-z0-9_]
IsWordChar(c) == c \in WordChars

StartsWith(s, p) == Len(p) <= Len(s) /\ SubSeq(s, 1, Len(p)) = p

EndsWith(s, p) == Len(p) <= Len(s) /\ SubSeq(s, Len(s) - Len(p) + 1, Len(s)) = p

\* the default comparison of Array.prototype.sort on strings: a sorts
\* strictly before b by UTF-16 code units
RECURSIVE StrLess(_, _)
StrLess(a, b) ==
    IF Len(b) = 0 THEN FALSE
    ELSE IF Len(a) = 0 THEN TRUE
    ELSE IF CharAt(a, 1) = CharAt(b, 1) THEN StrLess(Tail(a), Tail(b))
    ELSE CharCode(CharAt(a, 1)) < CharCode(CharAt(b, 1))

\* Array.prototype.join
RECURSIVE Join(_, _)
Join(xs, sep) ==
    IF Len(xs) = 0 THEN ""
    ELSE IF Len(xs) = 1 THEN xs[1]
    ELSE xs[1] \o sep \o Join(Tail(xs), sep)

(***************************************************************************)
(* node:path                                                               *)
(***************************************************************************)
\* index of the last "." of a file name, 0 when there is none
LastDot(file) ==
    IF \E k \in 1..Len(file) : CharAt(file, k) = "."
    THEN CHOOSE k \in 1..Len(file) :
            CharAt(file, k) = "." /\ \A j \in (k+1)..Len(file) : CharAt(file, j) # "."
    ELSE 0

\* path.extname of a file name without directory part: from the last "." to
\* the end; empty when there is no "." or the only "." is the first character
extname(file) ==
    IF LastDot(file) <= 1 THEN "" ELSE SubSeq(file, LastDot(file), Len(file))

\* path.basename(file, ext) of a file name without directory part
basename(file, ext) ==
    IF Len(ext) > 0 /\ Len(ext) < Len(file) /\ EndsWith(file, ext)
    THEN SubSeq(file, 1, Len(file) - Len(ext))
    ELSE file

(***************************************************************************)
(* Regular expressions of the configuration.  A pattern is one of          *)
(*   [kind |-> "suffix", alts, ignoreCase]   /(alt1|alt2)$/                *)
(*   [kind |-> "useWord", ignoreCase]        /^(Use\w+)$/                   *)
(***************************************************************************)
Fold(s, ignoreCase) == IF ignoreCase THEN ToLower(s) ELSE s

\* RegExp.prototype.test for the two pattern shapes (no g or y flag: test
\* keeps no state between calls)
RegExpTest(pattern, s) ==
    IF pattern.kind = "suffix"
    THEN \E a \in pattern.alts :
            /\ Len(a) <= Len(s)
            /\ Fold(SubSeq(s, Len(s) - Len(a) + 1, Len(s)), pattern.ignoreCase)
                  = Fold(a, pattern.ignoreCase)
    ELSE /\ Len(s) >= 4
         /\ Fold(SubSeq(s, 1, 3), pattern.ignoreCase) = Fold("Use", pattern.ignoreCase)
         /\ \A k \in 4..Len(s) : IsWordChar(CharAt(s, k))

Suffix(text, ignoreCase) == [kind |-> "suffix", alts |-> {text}, ignoreCase |-> ignoreCase]

(***************************************************************************)
(* config.ts                                                               *)
(***************************************************************************)
DefaultTypePatterns ==
    << Suffix("Api", TRUE), Suffix("Props", TRUE), Suffix("Config", TRUE),
       [kind |-> "useWord", ignoreCase |-> TRUE],
       Suffix("Context", TRUE), Suffix("Provider", TRUE), Suffix("Store", TRUE),
       Suffix("Ref", TRUE), Suffix("Options", TRUE) >>

DefaultInclude == [kind |-> "suffix", alts |-> {".tsx", ".ts"}, ignoreCase |-> FALSE]

DefaultExclude ==
    << Suffix(".d.ts", FALSE),
       [kind |-> "suffix", alts |-> {".test.ts", ".test.tsx"}, ignoreCase |-> FALSE],
       [kind |-> "suffix", alts |-> {".stories.ts", ".stories.tsx"}, ignoreCase |-> FALSE],
       Suffix("index.ts", FALSE) >>

DefaultHeaderComment ==
    "/**\n * This file was automatically generated.\n * DO NOT MODIFY IT BY HAND.\n * Run the script again to regenerate.\n */\n\n"

\* defaultConfig; forceExplicitExtensions and extensionOverride are not set
\* by config.ts, so they read as undefined (falsy) unless the caller sets them
defaultConfig ==
    [ componentsDir |-> "src/components/ui",
      outputFile |-> "index.ts",
      sortAlphabetically |-> TRUE,
      singleLineThreshold |-> 3,
      typePatterns |-> DefaultTypePatterns,
      include |-> DefaultInclude,
      exclude |-> DefaultExclude,
      headerComment |-> DefaultHeaderComment,
      verbose |-> FALSE,
      dryRun |-> FALSE,
      forceExplicitExtensions |-> FALSE,
      extensionOverride |-> "" ]

(***************************************************************************)
(* extractExports: the syntax tree walk                                    *)
(*                                                                         *)
(* Nodes:                                                                  *)
(*  [kind |-> "SourceFile", statements]                                    *)
(*  [kind |-> "ExportDeclaration", clause, elements]                       *)
(*       clause is "NamedExports", "NamespaceExport" or "none"             *)
(*       elements are [name, isTypeOnly]                                   *)
(*  [kind |-> "VariableStatement", exported, declarations]                 *)
(*       declarations are [name, isIdentifier]                             *)
(*  [kind |-> "TypeAliasDeclaration", exported, name]                      *)
(*  [kind |-> "InterfaceDeclaration", exported, name]                      *)
(*  [kind |-> "FunctionDeclaration", exported, name]   name "" if anonymous*)
(*  [kind |-> "ExportAssignment", isExportEquals, expression, text]        *)
(*       expression is "Identifier", "FunctionExpression", "ArrowFunction" *)
(*       or "Other"                                                        *)
(*  [kind |-> "ClassDeclaration", exported, name]                          *)
(*  [kind |-> "ModuleDeclaration", exported, name, body]                   *)
(***************************************************************************)
NoRecords == [exports |-> <<>>, typeExports |-> <<>>]

RECURSIVE ElementRecords(_, _)
\* the loop over node.exportClause.elements
ElementRecords(elements, acc) ==
    IF Len(elements) = 0 THEN acc
    ELSE ElementRecords(Tail(elements),
            IF Head(elements).isTypeOnly
            THEN [acc EXCEPT !.typeExports = Append(@, Head(elements).name)]
            ELSE [acc EXCEPT !.exports = Append(@, Head(elements).name)])

RECURSIVE DeclarationRecords(_, _)
\* the loop over node.declarationList.declarations
DeclarationRecords(declarations, acc) ==
    IF Len(declarations) = 0 THEN acc
    ELSE DeclarationRecords(Tail(declarations),
            IF Head(declarations).isIdentifier
            THEN [acc EXCEPT !.exports = Append(@, Head(declarations).name)]
            ELSE acc)

\* the if / else-if chain of visit, applied to one node
VisitNode(node, acc) ==
    IF node.kind = "ExportDeclaration" /\ node.clause # "none"
    THEN IF node.clause = "NamedExports" THEN ElementRecords(node.elements, acc) ELSE acc
    ELSE IF node.kind = "VariableStatement" /\ node.exported
    THEN DeclarationRecords(node.declarations, acc)
    ELSE IF node.kind = "TypeAliasDeclaration" /\ node.exported
    THEN [acc EXCEPT !.typeExports = Append(@, node.name)]
    ELSE IF node.kind = "InterfaceDeclaration" /\ node.exported
    THEN [acc EXCEPT !.typeExports = Append(@, node.name)]
    ELSE IF node.kind = "FunctionDeclaration" /\ node.exported /\ node.name # ""
    THEN [acc EXCEPT !.exports = Append(@, node.name)]
    ELSE IF node.kind = "ExportAssignment" /\ ~node.isExportEquals
    THEN IF node.expression = "Identifier"
         THEN [acc EXCEPT !.exports = Append(@, node.text)]
         ELSE IF node.expression \in {"FunctionExpression", "ArrowFunction"}
         THEN [acc EXCEPT !.exports = Append(@, "default")]
         ELSE acc
    ELSE acc

\* the children ts.forEachChild hands to visit: statements of a source file
\* and of a namespace / module block
ChildNodes(node) ==
    IF node.kind = "SourceFile" THEN node.statements
    ELSE IF node.kind = "ModuleDeclaration" THEN node.body
    ELSE <<>>

RECURSIVE visit(_, _), visitEach(_, _)
visit(node, acc) == visitEach(ChildNodes(node), VisitNode(node, acc))

visitEach(nodes, acc) ==
    IF Len(nodes) = 0 THEN acc ELSE visitEach(Tail(nodes), visit(Head(nodes), acc))

extractExports(sourceFile) == visit(sourceFile, NoRecords)

\* typePatterns.some(pattern => pattern.test(name))
shouldBeType(name, typePatterns) ==
    \E k \in 1..Len(typePatterns) : RegExpTest(typePatterns[k], name)

\* Array.prototype.filter on a sequence
RECURSIVE SelectNames(_, _, _)
SelectNames(names, typePatterns, wantType) ==
    IF Len(names) = 0 THEN <<>>
    ELSE (IF shouldBeType(Head(names), typePatterns) = wantType THEN <<Head(names)>> ELSE <<>>)
         \o SelectNames(Tail(names), typePatterns, wantType)

TypePrefixed(names) == [k \in 1..Len(names) |-> "type " \o names[k]]

\* AllExports with the type specifiers put first
AllExportsTypesFirst(records, typePatterns) ==
    TypePrefixed(records.typeExports \o SelectNames(records.exports, typePatterns, TRUE))
    \o SelectNames(records.exports, typePatterns, FALSE)

\* allExports of one file: the value names that match no pattern, then the
\* type names and the reclassified value names, each prefixed with "type "
AllExports(records, typePatterns) ==
    SelectNames(records.exports, typePatterns, FALSE)
    \o TypePrefixed(records.typeExports \o SelectNames(records.exports, typePatterns, TRUE))

(***************************************************************************)
(* Map<string, T>: a sequence of [key, value] in insertion order.  Setting *)
(* a key that is present replaces its value and keeps its position.        *)
(***************************************************************************)
MapHas(m, key) == \E k \in 1..Len(m) : m[k].key = key

MapGet(m, key) == m[CHOOSE k \in 1..Len(m) : m[k].key = key].value

MapSet(m, key, value) ==
    IF MapHas(m, key)
    THEN [k \in 1..Len(m) |-> IF m[k].key = key THEN [key |-> key, value |-> value] ELSE m[k]]
    ELSE Append(m, [key |-> key, value |-> value])

MapKeys(m) == [k \in 1..Len(m) |-> m[k].key]

\* fileExtensions.get(componentName) || ''
ExtensionOf(fileExtensions, componentName) ==
    IF MapHas(fileExtensions, componentName) THEN MapGet(fileExtensions, componentName) ELSE ""

(***************************************************************************)
(* Array.prototype.sort() without comparator on distinct strings           *)
(***************************************************************************)
RECURSIVE InsertSorted(_, _)
InsertSorted(sorted, x) ==
    IF Len(sorted) = 0 THEN <<x>>
    ELSE IF StrLess(x, Head(sorted)) THEN <<x>> \o sorted
    ELSE <<Head(sorted)>> \o InsertSorted(Tail(sorted), x)

RECURSIVE SortNames(_)
SortNames(names) ==
    IF Len(names) = 0 THEN <<>>
    ELSE InsertSorted(SortNames(SubSeq(names, 1, Len(names) - 1)), names[Len(names)])

(***************************************************************************)
(* generateIndex: rendering                                                *)
(***************************************************************************)
\* the extension of one module specifier (three-mode policy)
SpecifierExtension(config, useExplicitExtensions, fileExtensions, componentName) ==
    IF ~useExplicitExtensions THEN ""
    ELSE IF config.extensionOverride # ""
    THEN IF StartsWith(config.extensionOverride, ".")
         THEN config.extensionOverride
         ELSE "." \o config.extensionOverride
    ELSE IF config.forceExplicitExtensions
    THEN ExtensionOf(fileExtensions, componentName)
    ELSE IF ExtensionOf(fileExtensions, componentName) \in {".tsx", ".ts"}
    THEN ".js"
    ELSE ExtensionOf(fileExtensions, componentName)

\* Statement with the threshold compared strictly
StatementStrictThreshold(exports, componentName, extension, singleLineThreshold) ==
    IF Len(exports) < singleLineThreshold
    THEN "export { " \o Join(exports, ", ") \o " } from \"./" \o componentName \o extension \o "\";\n"
    ELSE "export {\n  " \o Join(exports, ",\n  ") \o "\n} from \"./" \o componentName \o extension \o "\";\n"

\* one re-export statement, single-line or multi-line
Statement(exports, componentName, extension, singleLineThreshold) ==
    IF Len(exports) <= singleLineThreshold
    THEN "export { " \o Join(exports, ", ") \o " } from \"./" \o componentName \o extension \o "\";\n"
    ELSE "export {\n  " \o Join(exports, ",\n  ") \o "\n} from \"./" \o componentName \o extension \o "\";\n"

\* ComponentNames with the sort flag read the wrong way round
ComponentNamesFlagInverted(config, componentExports) ==
    IF config.sortAlphabetically
    THEN MapKeys(componentExports)
    ELSE SortNames(MapKeys(componentExports))

\* componentNames: the keys of componentExports, sorted or not
ComponentNames(config, componentExports) ==
    IF config.sortAlphabetically
    THEN SortNames(MapKeys(componentExports))
    ELSE MapKeys(componentExports)

\* the statements of the output, in output order
Statements(config, useExplicitExtensions, componentExports, fileExtensions) ==
    LET names == ComponentNames(config, componentExports)
    IN  [k \in 1..Len(names) |->
            Statement(MapGet(componentExports, names[k]), names[k],
                      SpecifierExtension(config, useExplicitExtensions, fileExtensions, names[k]),
                      config.singleLineThreshold)]

\* indexContent: the header comment followed by the statements
IndexContent(config, useExplicitExtensions, componentExports, fileExtensions) ==
    config.headerComment
    \o Join(Statements(config, useExplicitExtensions, componentExports, fileExtensions), "")

(***************************************************************************)
(* The syntax tree the TypeScript parser builds for a generated index      *)
(* text: one export declaration with named exports per statement, an       *)
(* element being type-only when its specifier starts with "type ".         *)
(***************************************************************************)
SpecifierElement(specifier) ==
    IF StartsWith(specifier, "type ")
    THEN [name |-> SubSeq(specifier, 6, Len(specifier)), isTypeOnly |-> TRUE]
    ELSE [name |-> specifier, isTypeOnly |-> FALSE]

ParsedIndex(config, componentExports) ==
    LET names == ComponentNames(config, componentExports)
    IN  [kind |-> "SourceFile",
         statements |->
            [k \in 1..Len(names) |->
                [kind |-> "ExportDeclaration", clause |-> "NamedExports",
                 elements |-> [j \in 1..Len(MapGet(componentExports, names[k])) |->
                                  SpecifierElement(MapGet(componentExports, names[k])[j])]]]]

(***************************************************************************)
(* The working directory's project files, as the probes see them           *)
(***************************************************************************)
\* environment is [packageJson, tsconfig, files, directories]:
\*   packageJson  [status, type]: status "ok" when the file is read and
\*                parsed to an object, "missing" or "unparsable" otherwise
\*   tsconfig     [status, compilerOptions, moduleResolution, module]: "" for
\*                an option that is not set
\*   files, directories  the paths below the working directory stat finds

\* the first readFile of shouldUseExplicitExtensions: package.json was read,
\* parsed, and declares type "module"
shouldUseExplicitExtensionsPackage(packageJson) ==
    /\ packageJson.status = "ok"
    /\ packageJson.type = "module"

\* the tsconfig.json test without the module / moduleResolution comparison
shouldUseExplicitExtensionsTsconfigIgnored(tsconfig) == FALSE

\* the second readFile of shouldUseExplicitExtensions: tsconfig.json was
\* read, parsed, and its compilerOptions have moduleResolution or module
\* nodenext or node16 (compared in lower case)
shouldUseExplicitExtensionsTsconfig(tsconfig) ==
    /\ tsconfig.status = "ok"
    /\ tsconfig.compilerOptions
    /\ \/ ToLower(tsconfig.moduleResolution) \in {"nodenext", "node16"}
       \/ ToLower(tsconfig.module) \in {"nodenext", "node16"}

monorepoConfigs == << "lerna.json", "pnpm-workspace.yaml", "turbo.json", "nx.json", "rush.json" >>

monorepoDirs == << "packages", "apps", "libs", "modules" >>

\* the k-th stat of detectMonorepo makes it return true: stat succeeds on
\* a workspace marker, or a conventional directory is a directory
detectMonorepoStat(env, k) ==
    IF k <= Len(monorepoConfigs)
    THEN monorepoConfigs[k] \in (env.files \cup env.directories)
    ELSE monorepoDirs[k - Len(monorepoConfigs)] \in env.directories

commonPaths ==
    << "packages/ui/src/components/ui",
       "packages/ui/components/ui",
       "packages/ui/src/ui",
       "packages/ui/ui",
       "packages/components/src/ui",
       "packages/components/ui",
       "packages/design-system/src/components/ui",
       "packages/design-system/components/ui",
       "libs/ui/src/components/ui",
       "libs/ui/components/ui" >>

\* the k-th stat of findUIComponentsInMonorepo makes it return its path:
\* the conventional path is a directory
findUIComponentsStat(env, k) == commonPaths[k] \in env.directories

NoPackageJson == [status |-> "missing", type |-> ""]

NoTsconfig ==
    [status |-> "missing", compilerOptions |-> FALSE, moduleResolution |-> "", module |-> ""]

\* a CommonJS project that is no monorepo, in a process without a file-size
\* limit (-1, as RLIM_INFINITY)
PlainEnvironment ==
    [packageJson |-> [status |-> "ok", type |-> "commonjs"], tsconfig |-> NoTsconfig,
     files |-> {}, directories |-> {}, fileSizeLimit |-> -1]

MonorepoUIDir == "packages/ui/src/components/ui"

DirPaths == {defaultConfig.componentsDir, MonorepoUIDir}

(***************************************************************************)
(* Source files of the scanned directory                                   *)
(***************************************************************************)
VarStmt(names) ==
    [kind |-> "VariableStatement", exported |-> TRUE,
     declarations |-> [k \in 1..Len(names) |-> [name |-> names[k], isIdentifier |-> TRUE]]]

NamedExports(elements) ==
    [kind |-> "ExportDeclaration", clause |-> "NamedExports", elements |-> elements]

SourceFile(statements) == [kind |-> "SourceFile", statements |-> statements]

ButtonTsx ==
    [name |-> "button.tsx", readable |-> TRUE,
     text |-> "export const Button = 1;\nexport const ButtonProps = {};\nexport interface ButtonVariant {}\n",
     ast |-> SourceFile(<< VarStmt(<<"Button">>), VarStmt(<<"ButtonProps">>),
                [kind |-> "InterfaceDeclaration", exported |-> TRUE, name |-> "ButtonVariant"] >>)]

ButtonTs ==
    [name |-> "button.ts", readable |-> TRUE,
     text |-> "export const buttonSizes = 1;\nexport type SizeOptions = string;\nexport function useButton() {}\n",
     ast |-> SourceFile(<< VarStmt(<<"buttonSizes">>),
                [kind |-> "TypeAliasDeclaration", exported |-> TRUE, name |-> "SizeOptions"],
                [kind |-> "FunctionDeclaration", exported |-> TRUE, name |-> "useButton"] >>)]

CardTsx ==
    [name |-> "card.tsx", readable |-> TRUE,
     text |-> "export const Card = 1, CardHeader = 2;\nexport { CardTitle, type CardKind };\n",
     ast |-> SourceFile(<< VarStmt(<<"Card", "CardHeader">>),
                NamedExports(<< [name |-> "CardTitle", isTypeOnly |-> FALSE],
                                [name |-> "CardKind", isTypeOnly |-> TRUE] >>) >>)]

\* a file readFile fails on (no permission, or a directory named like a source file)
BrokenTsx ==
    [name |-> "broken.tsx", readable |-> FALSE, text |-> "", ast |-> SourceFile(<< >>)]

\* an index file left by an earlier generation
OldIndexTs ==
    [name |-> "index.ts", readable |-> TRUE,
     text |-> "export { Old } from \"./old\";\n",
     ast |-> SourceFile(<< NamedExports(<< [name |-> "Old", isTypeOnly |-> FALSE] >>) >>)]

OldBarrelTs ==
    [name |-> "barrel.ts", readable |-> TRUE,
     text |-> "export { Legacy, type LegacyProps } from \"./legacy\";\n",
     ast |-> SourceFile(<< NamedExports(<< [name |-> "Legacy", isTypeOnly |-> FALSE],
                                           [name |-> "LegacyProps", isTypeOnly |-> TRUE] >>) >>)]

\* files the default exclude patterns name
TypesDTs ==
    [name |-> "types.d.ts", readable |-> TRUE,
     text |-> "export interface Theme {}\n",
     ast |-> SourceFile(<< [kind |-> "InterfaceDeclaration", exported |-> TRUE, name |-> "Theme"] >>)]

CardTestTsx ==
    [name |-> "card.test.tsx", readable |-> TRUE,
     text |-> "export const fixture = 1;\n",
     ast |-> SourceFile(<< VarStmt(<<"fixture">>) >>)]

CardStoriesTsx ==
    [name |-> "card.stories.tsx", readable |-> TRUE,
     text |-> "export const Primary = {};\n",
     ast |-> SourceFile(<< VarStmt(<<"Primary">>) >>)]

\* a second button.tsx, one that exports nothing
ButtonEmptyTsx ==
    [name |-> "button.tsx", readable |-> TRUE,
     text |-> "const buttonSizes = [1, 2];\n",
     ast |-> SourceFile(<< [kind |-> "VariableStatement", exported |-> FALSE,
                            declarations |-> << [name |-> "buttonSizes", isIdentifier |-> TRUE] >>] >>)]

\* a namespace with an exported member, next to a top-level export
LayoutTs ==
    [name |-> "layout.ts", readable |-> TRUE,
     text |-> "export namespace Layout {\n  export const gap = 4;\n}\nexport const Grid = 1;\n",
     ast |-> SourceFile(<< [kind |-> "ModuleDeclaration", exported |-> TRUE, name |-> "Layout",
                            body |-> << VarStmt(<<"gap">>) >>],
                           VarStmt(<<"Grid">>) >>)]

\* export default <identifier>
DialogTsx ==
    [name |-> "dialog.tsx", readable |-> TRUE,
     text |-> "const Dialog = () => null;\nexport default Dialog;\n",
     ast |-> SourceFile(<< [kind |-> "VariableStatement", exported |-> FALSE,
                            declarations |-> << [name |-> "Dialog", isIdentifier |-> TRUE] >>],
                           [kind |-> "ExportAssignment", isExportEquals |-> FALSE,
                            expression |-> "Identifier", text |-> "Dialog"] >>)]

\* export default <arrow function>
ToastTsx ==
    [name |-> "toast.tsx", readable |-> TRUE,
     text |-> "export default () => null;\n",
     ast |-> SourceFile(<< [kind |-> "ExportAssignment", isExportEquals |-> FALSE,
                            expression |-> "ArrowFunction", text |-> ""] >>)]

\* export default <anonymous function>: the parser takes "export" and
\* "default" as modifiers of a function declaration that has no name
MenuTsx ==
    [name |-> "menu.tsx", readable |-> TRUE,
     text |-> "export default function () {\n  return null;\n}\n",
     ast |-> SourceFile(<< [kind |-> "FunctionDeclaration", exported |-> TRUE, name |-> ""] >>)]

\* export = <identifier>
LegacyTs ==
    [name |-> "legacy.ts", readable |-> TRUE,
     text |-> "const legacy = 1;\nexport = legacy;\n",
     ast |-> SourceFile(<< [kind |-> "VariableStatement", exported |-> FALSE,
                            declarations |-> << [name |-> "legacy", isIdentifier |-> TRUE] >>],
                           [kind |-> "ExportAssignment", isExportEquals |-> TRUE,
                            expression |-> "Identifier", text |-> "legacy"] >>)]

\* an overloaded function (three declarations of one name), a value whose
\* name matches a type pattern, and a declared type after it
FormatTs ==
    [name |-> "format.ts", readable |-> TRUE,
     text |-> "export function format(value: string): string;\nexport function format(value: number): string;\nexport function format(value: unknown) {\n  return String(value);\n}\nexport const formatOptions = {};\nexport type FormatKind = string;\n",
     ast |-> SourceFile(<< [kind |-> "FunctionDeclaration", exported |-> TRUE, name |-> "format"],
                           [kind |-> "FunctionDeclaration", exported |-> TRUE, name |-> "format"],
                           [kind |-> "FunctionDeclaration", exported |-> TRUE, name |-> "format"],
                           VarStmt(<<"formatOptions">>),
                           [kind |-> "TypeAliasDeclaration", exported |-> TRUE, name |-> "FormatKind"] >>)]

\* a component whose name ends in "index.ts"
MyIndexTs ==
    [name |-> "myindex.ts", readable |-> TRUE,
     text |-> "export const myIndex = 1;\n",
     ast |-> SourceFile(<< VarStmt(<<"myIndex">>) >>)]

\* a component whose file name sorts between button.ts and button.tsx
ButtonTsvTs ==
    [name |-> "button.tsv.ts", readable |-> TRUE,
     text |-> "export const parseTsv = 1;\n",
     ast |-> SourceFile(<< VarStmt(<<"parseTsv">>) >>)]

\* the component sources of the runs that exercise classification, layout,
\* ordering and per-file failures
Universe == {ButtonTsx, ButtonTs, ButtonTsvTs, CardTsx, BrokenTsx}

\* the sources of the runs that exercise the include / exclude filter, the
\* output file name and the replacement of an existing output file
OutputUniverse == {CardTsx, TypesDTs, CardTestTsx, CardStoriesTsx, OldIndexTs, OldBarrelTs}

\* the sources of the runs that exercise the extension policy
ExtensionUniverse == {ButtonTsx, ButtonTs, CardTsx, ButtonEmptyTsx}

\* the sources of the runs that exercise the export forms of the extractor
ExtractUniverse == {LayoutTs, DialogTsx, ToastTsx, MenuTsx, LegacyTs, FormatTs}

\* the sources of the runs that exercise the choice of the scanned directory
MonorepoUniverse == {ButtonTs, CardTsx, BrokenTsx}

\* the sources of the runs that exercise the default include / exclude patterns
FilterUniverse == {CardTsx, MyIndexTs, TypesDTs, CardTestTsx, OldIndexTs}

Range(f) == { f[k] : k \in DOMAIN f }

(***************************************************************************)
(* Reading export statements in a text: what the parser makes of the text  *)
(* of an index file, statement by statement.                               *)
(***************************************************************************)
\* the positions where sub occurs in s
Occurrences(s, sub) ==
    { k \in 1..(Len(s) - Len(sub) + 1) : SubSeq(s, k, k + Len(sub) - 1) = sub }

Contains(s, sub) == Occurrences(s, sub) # {}

Least(S) == CHOOSE x \in S : \A y \in S : x <= y

Greatest(S) == CHOOSE x \in S : \A y \in S : x >= y

RECURSIVE Ascending(_)
\* the elements of a finite set of numbers in ascending order
Ascending(S) == IF S = {} THEN << >> ELSE <<Least(S)>> \o Ascending(S \ {Least(S)})

\* String.prototype.split for a separator whose occurrences do not overlap
Split(s, sep) ==
    LET cuts == Ascending(Occurrences(s, sep))
    IN  [i \in 1..(Len(cuts) + 1) |->
            SubSeq(s, IF i = 1 THEN 1 ELSE cuts[i - 1] + Len(sep),
                      IF i = Len(cuts) + 1 THEN Len(s) ELSE cuts[i] - 1)]

\* String.prototype.trim for blanks and newlines
Trim(s) ==
    LET inked == { k \in 1..Len(s) : CharAt(s, k) \notin {" ", "\n"} }
    IN  IF inked = {} THEN "" ELSE SubSeq(s, Least(inked), Greatest(inked))

\* one statement text (without its final ";\n") read back
ReadStatement(chunk) ==
    LET open == Least(Occurrences(chunk, "{"))
        close == Least(Occurrences(chunk, "}"))
        quote == Least(Occurrences(chunk, "\""))
        inner == Split(SubSeq(chunk, open + 1, close - 1), ",")
    IN  [module |-> SubSeq(chunk, quote + 1, Len(chunk) - 1),
         specifiers |-> [k \in 1..Len(inner) |-> Trim(inner[k])],
         singleLine |-> ~Contains(chunk, "\n"),
         lines |-> Cardinality(Occurrences(chunk, "\n")) + 1]

\* readdir returns the names in ascending order of their characters
RECURSIVE SortedListing(_)
SortedListing(files) ==
    IF files = {} THEN << >>
    ELSE LET first == CHOOSE f \in files : \A g \in files \ {f} : StrLess(f.name, g.name)
         IN  <<first>> \o SortedListing(files \ {first})

\* the directory listings of at most n files with distinct names from a universe
Listings(universe, n) ==
    { SortedListing(files) :
        files \in { some \in SUBSET universe :
                      /\ Cardinality(some) <= n
                      /\ \A f, g \in some : f.name = g.name => f = g } }

\* the configurations a caller passes, merged over defaultConfig
Configs ==
    { [defaultConfig EXCEPT !.sortAlphabetically = srt, !.singleLineThreshold = t,
                            !.typePatterns = tp]
      : srt \in BOOLEAN, t \in {2, 3}, tp \in {DefaultTypePatterns, << >>} }
    \cup { [defaultConfig EXCEPT !.dryRun = TRUE] }

OutputConfigs ==
    { [defaultConfig EXCEPT !.outputFile = o, !.dryRun = dry]
      : o \in {"index.ts", "barrel.ts"}, dry \in BOOLEAN }

\* force-extensions on or off, with no override extension, one with a dot
\* and one without; and a dry run in auto-detection mode
ExtensionConfigs ==
    { [defaultConfig EXCEPT !.forceExplicitExtensions = force, !.extensionOverride = ext]
      : force \in BOOLEAN, ext \in {"", ".js", "jsx"} }
    \cup { [defaultConfig EXCEPT !.dryRun = TRUE] }

\* a project whose package.json declares "type": "module"
ModuleEnvironment ==
    [PlainEnvironment EXCEPT !.packageJson = [status |-> "ok", type |-> "module"]]

\* a project without package.json whose tsconfig.json requests NodeNext
NodeNextEnvironment ==
    [PlainEnvironment EXCEPT !.packageJson = NoPackageJson,
                             !.tsconfig = [status |-> "ok", compilerOptions |-> TRUE,
                                           moduleResolution |-> "NodeNext", module |-> ""]]

\* the project files shouldUseExplicitExtensions may find
ExtensionEnvironments ==
    { PlainEnvironment,
      ModuleEnvironment,
      NodeNextEnvironment,
      [PlainEnvironment EXCEPT !.packageJson = [status |-> "unparsable", type |-> ""],
                               !.tsconfig = [status |-> "ok", compilerOptions |-> TRUE,
                                             moduleResolution |-> "", module |-> "node16"]],
      [PlainEnvironment EXCEPT !.tsconfig = [status |-> "ok", compilerOptions |-> TRUE,
                                             moduleResolution |-> "bundler", module |-> "esnext"]],
      [PlainEnvironment EXCEPT !.packageJson = NoPackageJson,
                               !.tsconfig = [status |-> "unparsable", compilerOptions |-> FALSE,
                                             moduleResolution |-> "", module |-> ""]] }

\* a directory the caller names that is neither the default one nor a
\* conventional monorepo path
CustomComponentsDir == "src/widgets"

MonorepoConfigs ==
    { [defaultConfig EXCEPT !.componentsDir = dir, !.dryRun = dry]
      : dir \in {defaultConfig.componentsDir, CustomComponentsDir}, dry \in BOOLEAN }

\* a CommonJS monorepo whose UI components are in packages/ui/ui
PackagesUIEnvironment ==
    [PlainEnvironment EXCEPT !.directories = {"packages", "packages/ui", "packages/ui/ui"}]

\* a CommonJS monorepo without a conventional UI path
WorkspaceEnvironment ==
    [PlainEnvironment EXCEPT !.directories = {"packages", "packages/core"}]

\* a CommonJS monorepo marked by pnpm-workspace.yaml, without packages/
MarkerEnvironment == [PlainEnvironment EXCEPT !.files = {"pnpm-workspace.yaml"}]

\* a CommonJS monorepo whose UI components are in packages/ui/src/components/ui
PackagesSrcUIEnvironment ==
    [PlainEnvironment EXCEPT !.directories =
        {"packages", "packages/ui", "packages/ui/src", "packages/ui/src/components",
         "packages/ui/src/components/ui"}]

\* working directories: no monorepo, a workspace marker only, a packages
\* directory without a UI path, and monorepos with one or two UI paths
MonorepoEnvironments ==
    { PlainEnvironment,
      MarkerEnvironment,
      WorkspaceEnvironment,
      PackagesSrcUIEnvironment,
      [PlainEnvironment EXCEPT !.files = {"turbo.json"},
                               !.directories =
            {"libs", "libs/ui", "libs/ui/components", "libs/ui/components/ui",
             "packages", "packages/ui", "packages/ui/ui"}] }

\* the conventional UI paths of these working directories
MonorepoDirPaths ==
    {"packages/ui/src/components/ui", "packages/ui/ui", "libs/ui/components/ui"}

\* the error codes a failing stat, readdir or writeFile reports
FsErrorCodes == {"EACCES", "ENAMETOOLONG", "EIO"}

\* the callers of generateIndex: which of the two exported generateIndex
\* functions they call, and whether they await a call before the next one
AwaitingCaller == [awaits |-> TRUE, entries |-> {"current"}]

Callers ==
    { AwaitingCaller,
      [awaits |-> FALSE, entries |-> {"current"}],
      [awaits |-> TRUE, entries |-> {"older"}],
      [awaits |-> FALSE, entries |-> {"current", "older"}] }

\* the calls of one process that can be in flight together
MaxInFlight == 2

Slots == 1..MaxInFlight

\* what another party does to the working directory while calls run: a
\* sequence of [op |-> "remove", dir, file] and [op |-> "project", project]
RemoveCard ==
    [op |-> "remove", dir |-> defaultConfig.componentsDir, file |-> "card.tsx",
     project |-> PlainEnvironment]

BecomeModule ==
    [op |-> "project", dir |-> "", file |-> "", project |-> ModuleEnvironment]

\* a lerna monorepo with its UI components in the first conventional path
LernaUIEnvironment ==
    [PlainEnvironment EXCEPT !.files = {"lerna.json"},
                             !.directories = {"packages", "packages/ui", "packages/ui/src",
                                              "packages/ui/src/components", MonorepoUIDir}]

OtherPartyPrograms == { << RemoveCard >>, << BecomeModule >> }

(***************************************************************************)
(* State                                                                   *)
(***************************************************************************)
VARIABLES
    fullConfig,            \* the merged configuration of the calls
    environment,           \* project files of the working directory, and the
                           \* file-size limit of the process
    dirs,                  \* existing directory path -> listing, sorted by name
    exitCode,              \* process.exitCode
    runs,                  \* calls of generateIndex started so far
    caller,                \* how the process calls generateIndex
    otherParty,            \* what another party is still going to do
    calls,                 \* slot -> the local state of the call in that slot
    previous               \* summary of the last call that composed a text and
                           \* whose slot has been taken by a later call

vars == << fullConfig, environment, dirs, exitCode, runs, caller, otherParty, calls, previous >>

\* the local state of a call that has not started:
\*   pc             where the call is suspended: "import", "detectMonorepo",
\*                  "extensions", "findUI", "stat", "readdir", "read",
\*                  "write" name the helper or promise it awaits; "writing"
\*                  and "closing": writeFile has opened the output file,
\*                  and has written the text; "failing": a write of
\*                  writeFile has failed and the file is being closed
\*   probe          stat / readFile calls of the helper under way that have
\*                  settled
\*   older          the call runs the older generateIndex, without probes
\*   startDirs      the directories when the call started
\*   probed         package.json and tsconfig.json as the extension probe read
\*                  them, each at its own readFile; as not found when not read
\*   files          what readdir returned
\*   sources        per processed file what readFile and the parser returned
\*   warnings       files named by console.warn
\*   errors         log(..., 'error') messages
\*   generated      indexContent has been composed
\*   written        characters of the text that writeFile has written
\*   failure        the code of the error a write of writeFile failed with
\*   writes         writeFile calls that succeeded
IdleCall ==
    [pc |-> "idle", older |-> FALSE, startDirs |-> << >>, probe |-> 0,
     isMonorepo |-> FALSE, useExplicitExtensions |-> FALSE,
     probed |-> [packageJson |-> NoPackageJson, tsconfig |-> NoTsconfig],
     componentsDir |-> "", files |-> << >>, componentFiles |-> << >>, position |-> 1,
     sources |-> << >>, componentExports |-> << >>, fileExtensions |-> << >>,
     processedCount |-> 0, typesDetectedCount |-> 0, warnings |-> << >>, errors |-> << >>,
     indexContent |-> "", generated |-> FALSE, written |-> 0, failure |-> "", writes |-> 0]

NoPrevious ==
    [valid |-> FALSE, older |-> FALSE, useExplicitExtensions |-> FALSE, componentsDir |-> "",
     listing |-> << >>, undisturbed |-> FALSE, content |-> ""]

\* the state of the process before the first call
Prepared ==
    /\ exitCode = 0
    /\ runs = 0
    /\ calls = [s \in Slots |-> IdleCall]
    /\ previous = NoPrevious

\* a caller that awaits every call of the current generateIndex, and no other party
Quiet ==
    /\ caller = AwaitingCaller
    /\ otherParty = << >>

\* the working directory's components directory with one of the listings, or
\* no such directory
DirsWith(universe) ==
    { [p \in {defaultConfig.componentsDir} |-> listing] : listing \in Listings(universe, MaxFiles) }
    \cup { [p \in {} |-> << >>] }

\* two components in a CommonJS monorepo without a conventional UI path,
\* while another party removes a component or replaces the project by an ES
\* module project that is no monorepo; the caller awaits its calls, of the
\* current or of the older generateIndex
Disturbed ==
    /\ fullConfig = defaultConfig
    /\ environment = WorkspaceEnvironment
    /\ dirs = [p \in {defaultConfig.componentsDir} |-> << ButtonTsx, CardTsx >>]
    /\ caller \in { call \in Callers : call.awaits }
    /\ otherParty \in OtherPartyPrograms
    /\ Prepared

\* one component in the UI directory of a lerna monorepo, which the
\* configuration names as well, and a caller that starts calls of either
\* generateIndex without awaiting the calls it has started
Overlapping ==
    /\ fullConfig = [defaultConfig EXCEPT !.componentsDir = MonorepoUIDir]
    /\ environment = LernaUIEnvironment
    /\ dirs = [p \in {defaultConfig.componentsDir, MonorepoUIDir} |->
                 IF p = MonorepoUIDir THEN << CardTsx >> ELSE << >>]
    /\ caller \in { call \in Callers : ~call.awaits /\ "older" \in call.entries }
    /\ otherParty = << >>
    /\ Prepared

\* the same monorepo, a caller that starts calls of the current generateIndex
\* without awaiting them, and another party that removes the component
\* while they run
OverlappingRemoval ==
    /\ fullConfig = [defaultConfig EXCEPT !.componentsDir = MonorepoUIDir]
    /\ environment = LernaUIEnvironment
    /\ dirs = [p \in {defaultConfig.componentsDir, MonorepoUIDir} |->
                 IF p = MonorepoUIDir THEN << CardTsx >> ELSE << >>]
    /\ caller \in { call \in Callers : ~call.awaits /\ "older" \notin call.entries }
    /\ otherParty = << [op |-> "remove", dir |-> MonorepoUIDir, file |-> "card.tsx",
                        project |-> PlainEnvironment] >>
    /\ Prepared

\* one component, with or without an index file, in a process whose
\* file-size limit is reached inside the first statement of the index text
Limited ==
    /\ fullConfig = defaultConfig
    /\ environment = [PlainEnvironment EXCEPT
                         !.fileSizeLimit = Len(defaultConfig.headerComment) + Len("export { Card")]
    /\ dirs \in { [p \in {defaultConfig.componentsDir} |-> listing] :
                     listing \in { << CardTsx >>, << CardTsx, OldIndexTs >> } }
    /\ Quiet
    /\ Prepared

InitWith(universe, configs) ==
    \/ /\ fullConfig \in configs
       /\ environment = PlainEnvironment
       /\ dirs \in DirsWith(universe)
       /\ Quiet
       /\ Prepared
    \/ Disturbed
    \/ Limited

Init ==
    \/ InitWith(Universe, Configs)
    \/ Overlapping

InitOutput ==
    \/ InitWith(OutputUniverse, OutputConfigs)
    \/ OverlappingRemoval

InitExtensions ==
    \/ /\ fullConfig \in ExtensionConfigs
       /\ environment \in ExtensionEnvironments
       /\ dirs \in DirsWith(ExtensionUniverse)
       /\ Quiet
       /\ Prepared
    \/ /\ fullConfig = defaultConfig
       /\ environment = NodeNextEnvironment
       /\ dirs = [p \in {defaultConfig.componentsDir} |-> << ButtonTsx, CardTsx >>]
       /\ caller = AwaitingCaller
       /\ otherParty = << BecomeModule >>
       /\ Prepared
    \/ Disturbed
    \/ Limited
    \/ Overlapping

InitExtract ==
    \/ InitWith(ExtractUniverse, { [defaultConfig EXCEPT !.dryRun = dry] : dry \in BOOLEAN })
    \/ OverlappingRemoval

\* the directories the caller may name hold the chosen listing, the
\* conventional monorepo paths of the working directory hold two components;
\* or another party changes the project while a call probes it: packages/
\* goes and the project becomes an ES module project, the UI components
\* move to another conventional path, or a workspace marker replaces packages/
InitMonorepo ==
    \/ /\ fullConfig \in MonorepoConfigs
       /\ environment \in MonorepoEnvironments
       /\ \E listing \in Listings(MonorepoUniverse, MaxFiles) :
             dirs = [p \in {defaultConfig.componentsDir, CustomComponentsDir}
                           \cup (MonorepoDirPaths \cap environment.directories) |->
                       IF p \in {defaultConfig.componentsDir, CustomComponentsDir}
                       THEN listing
                       ELSE << ButtonTsx, CardTsx >>]
       /\ Quiet
       /\ Prepared
    \/ /\ fullConfig = defaultConfig
       /\ environment = PackagesUIEnvironment
       /\ dirs = [p \in {defaultConfig.componentsDir, "packages/ui/ui"} |->
                    IF p = defaultConfig.componentsDir THEN << CardTsx >>
                    ELSE << ButtonTsx, CardTsx >>]
       /\ caller = AwaitingCaller
       /\ otherParty \in { << BecomeModule >>, << BecomeModule, RemoveCard >>,
                           << [op |-> "project", dir |-> "", file |-> "",
                               project |-> PackagesSrcUIEnvironment] >> }
       /\ Prepared
    \/ /\ fullConfig = defaultConfig
       /\ environment = WorkspaceEnvironment
       /\ dirs = [p \in {defaultConfig.componentsDir} |-> << ButtonTsx, CardTsx >>]
       /\ caller = AwaitingCaller
       /\ otherParty = << [op |-> "project", dir |-> "", file |-> "",
                            project |-> MarkerEnvironment] >>
       /\ Prepared
    \/ Limited
    \/ Overlapping

InitFilter ==
    \/ InitWith(FilterUniverse, { [defaultConfig EXCEPT !.dryRun = dry] : dry \in BOOLEAN })
    \/ Overlapping

\* callers that do not await a call before the next one, or call the older
\* generateIndex, in projects another party may change; or a process with a
\* file-size limit
InitCallers ==
    \/ /\ fullConfig \in { [defaultConfig EXCEPT !.outputFile = o] : o \in {"index.ts", "barrel.ts"} }
       /\ environment = WorkspaceEnvironment
       /\ dirs \in DirsWith({ButtonTsx, CardTsx})
       /\ caller \in Callers
       /\ otherParty \in { << >> } \cup OtherPartyPrograms
       /\ Prepared
    \/ Limited

(***************************************************************************)
(* generateIndex, from one await to the next                               *)
(***************************************************************************)
\* files.filter(include matches and no exclude pattern matches)
IsComponentFile(config, file) ==
    /\ RegExpTest(config.include, file)
    /\ ~\E k \in 1..Len(config.exclude) : RegExpTest(config.exclude[k], file)

RECURSIVE FilterFiles(_, _)
FilterFiles(config, files) ==
    IF Len(files) = 0 THEN << >>
    ELSE (IF IsComponentFile(config, Head(files)) THEN <<Head(files)>> ELSE << >>)
         \o FilterFiles(config, Tail(files))

FileNames(listing) == [k \in 1..Len(listing) |-> listing[k].name]

HasFile(listing, name) == \E k \in 1..Len(listing) : listing[k].name = name

FileNamed(listing, name) == listing[CHOOSE k \in 1..Len(listing) : listing[k].name = name]

\* the message log(..., 'error') prints for a caught error
ErrorMessage(code) ==
    IF code = "EACCES" THEN "Permission denied"
    ELSE IF code = "ENAMETOOLONG" THEN "Path too long"
    ELSE "Operation failed"

\* the codes an operation on a directory can fail with: ENOENT as well when
\* the directory does not exist
FailureCodes(dir) == FsErrorCodes \cup (IF dir \in DOMAIN dirs THEN {} ELSE {"ENOENT"})

Running(call) == call.pc \notin {"idle", "done"}

\* what is kept of a call when a later call takes its slot
Summary(call) ==
    [valid |-> TRUE, older |-> call.older,
     useExplicitExtensions |-> call.useExplicitExtensions,
     componentsDir |-> call.componentsDir,
     listing |-> IF call.componentsDir \in DOMAIN call.startDirs
                 THEN call.startDirs[call.componentsDir] ELSE << >>,
     undisturbed |->
        /\ call.componentsDir \in DOMAIN call.startDirs
        /\ call.files = FileNames(call.startDirs[call.componentsDir])
        /\ \A k \in 1..Len(call.sources) :
              LET file == FileNamed(call.startDirs[call.componentsDir], call.sources[k].name)
              IN  /\ call.sources[k].ok = file.readable
                  /\ call.sources[k].ok => call.sources[k].ast = file.ast,
     content |-> call.indexContent]

\* generateIndex is called: the call runs up to "await import('./config.js')".
\* A caller that awaits its calls starts one when none is in flight.
StartRun(s) ==
    /\ ~Running(calls[s])
    /\ \A t \in Slots : t < s => Running(calls[t])
    /\ caller.awaits => \A t \in Slots : ~Running(calls[t])
    /\ runs < MaxRuns
    /\ \E entry \in caller.entries :
          calls' = [calls EXCEPT ![s] =
                      [IdleCall EXCEPT !.pc = "import", !.older = (entry = "older"),
                                       !.startDirs = dirs]]
    /\ previous' = IF calls[s].generated THEN Summary(calls[s]) ELSE previous
    /\ runs' = runs + 1
    /\ UNCHANGED << fullConfig, environment, dirs, exitCode, caller, otherParty >>

\* the configuration module is loaded and the configuration merged.  The
\* current generateIndex goes on to detectMonorepo, the older one resolves
\* the configured directory and goes on to stat
ImportResolved(s) ==
    /\ calls[s].pc = "import"
    /\ calls' = [calls EXCEPT ![s] =
                    IF @.older
                    THEN [@ EXCEPT !.componentsDir = fullConfig.componentsDir, !.pc = "stat"]
                    ELSE [@ EXCEPT !.pc = "detectMonorepo"]]
    /\ UNCHANGED << fullConfig, environment, dirs, exitCode, runs, caller, otherParty, previous >>

\* after useExplicitExtensions is known: the configured directory is
\* resolved, and in a monorepo the conventional UI paths are tried
AfterExtensions(call) ==
    [call EXCEPT !.componentsDir = fullConfig.componentsDir,
                 !.pc = IF call.isMonorepo THEN "findUI" ELSE "stat"]

\* detectMonorepo has resolved; with forceExplicitExtensions the extension
\* probe is not called
AfterDetectMonorepo(call, isMonorepo) ==
    IF fullConfig.forceExplicitExtensions
    THEN AfterExtensions([call EXCEPT !.isMonorepo = isMonorepo, !.probe = 0,
                                      !.useExplicitExtensions = TRUE])
    ELSE [call EXCEPT !.isMonorepo = isMonorepo, !.probe = 0, !.pc = "extensions"]

\* one stat of detectMonorepo settles: the five markers and then the four
\* directories are tried in turn, each on the working directory as it then is
DetectMonorepo(s) ==
    /\ calls[s].pc = "detectMonorepo"
    /\ LET k == calls[s].probe + 1
       IN  calls' = [calls EXCEPT ![s] =
                       IF detectMonorepoStat(environment, k)
                       THEN AfterDetectMonorepo(@, TRUE)
                       ELSE IF k = Len(monorepoConfigs) + Len(monorepoDirs)
                            THEN AfterDetectMonorepo(@, FALSE)
                            ELSE [@ EXCEPT !.probe = k]]
    /\ UNCHANGED << fullConfig, environment, dirs, exitCode, runs, caller, otherParty, previous >>

\* one readFile of shouldUseExplicitExtensions settles: package.json first,
\* tsconfig.json when package.json gave no signal
ProbeExtensions(s) ==
    /\ calls[s].pc = "extensions"
    /\ calls' = [calls EXCEPT ![s] =
                    IF @.probe = 0
                    THEN LET read == [@ EXCEPT !.probed.packageJson = environment.packageJson]
                         IN  IF shouldUseExplicitExtensionsPackage(environment.packageJson)
                             THEN AfterExtensions([read EXCEPT !.useExplicitExtensions = TRUE])
                             ELSE [read EXCEPT !.probe = 1]
                    ELSE AfterExtensions(
                             [@ EXCEPT !.probed.tsconfig = environment.tsconfig,
                                       !.probe = 0,
                                       !.useExplicitExtensions =
                                           shouldUseExplicitExtensionsTsconfig(environment.tsconfig)])]
    /\ UNCHANGED << fullConfig, environment, dirs, exitCode, runs, caller, otherParty, previous >>

\* one stat of findUIComponentsInMonorepo settles: the conventional paths
\* are tried in turn, the first that is a directory replaces the configured
\* directory
FindUIComponents(s) ==
    /\ calls[s].pc = "findUI"
    /\ LET k == calls[s].probe + 1
       IN  calls' = [calls EXCEPT ![s] =
                       IF findUIComponentsStat(environment, k)
                       THEN [@ EXCEPT !.componentsDir = commonPaths[k], !.probe = 0, !.pc = "stat"]
                       ELSE IF k = Len(commonPaths)
                            THEN [@ EXCEPT !.probe = 0, !.pc = "stat"]
                            ELSE [@ EXCEPT !.probe = k]]
    /\ UNCHANGED << fullConfig, environment, dirs, exitCode, runs, caller, otherParty, previous >>

\* stat(componentsDir) succeeds
StatOk(s) ==
    /\ calls[s].pc = "stat"
    /\ calls[s].componentsDir \in DOMAIN dirs
    /\ calls' = [calls EXCEPT ![s].pc = "readdir"]
    /\ UNCHANGED << fullConfig, environment, dirs, exitCode, runs, caller, otherParty, previous >>

\* StatNotFound that reports and then goes on to list the directory
StatNotFoundGoesOn(s) ==
    /\ calls[s].pc = "stat"
    /\ calls[s].componentsDir \notin DOMAIN dirs
    /\ calls' = [calls EXCEPT ![s] =
                    [@ EXCEPT !.errors = Append(@, "Directory not found"), !.pc = "readdir"]]
    /\ UNCHANGED << fullConfig, environment, dirs, exitCode, runs, caller, otherParty, previous >>

\* stat fails with ENOENT: reported, the call returns (the finally block runs)
StatNotFound(s) ==
    /\ calls[s].pc = "stat"
    /\ calls[s].componentsDir \notin DOMAIN dirs
    /\ calls' = [calls EXCEPT ![s] =
                    [@ EXCEPT !.errors = Append(@, "Directory not found"), !.pc = "done"]]
    /\ UNCHANGED << fullConfig, environment, dirs, exitCode, runs, caller, otherParty, previous >>

\* stat fails with another code: rethrown to the outer catch
StatError(s) ==
    /\ calls[s].pc = "stat"
    /\ \E code \in FsErrorCodes :
          calls' = [calls EXCEPT ![s] =
                      [@ EXCEPT !.errors = Append(@, ErrorMessage(code)), !.pc = "done"]]
    /\ exitCode' = 1
    /\ UNCHANGED << fullConfig, environment, dirs, runs, caller, otherParty, previous >>

\* WritesOutput without the dry-run test
WritesOutputAlways(config) == TRUE

\* the branch "if (fullConfig.dryRun) ... else writeFile": the call writes
WritesOutput(config) == ~config.dryRun

\* after the loop: the index text is composed; a dry run prints it and
\* returns, any other call goes on to writeFile
Generate(call) ==
    [call EXCEPT !.indexContent =
                     IndexContent(fullConfig, call.useExplicitExtensions,
                                  call.componentExports, call.fileExtensions),
                 !.generated = TRUE,
                 !.pc = IF WritesOutput(fullConfig) THEN "write" ELSE "done"]

\* the start of one iteration of the for loop: the extension of the file is
\* stored (by the current generateIndex) and readFile is called
BeginIteration(call) ==
    LET file == call.componentFiles[call.position]
    IN  [call EXCEPT !.fileExtensions =
                         IF call.older THEN @
                         ELSE MapSet(@, basename(file, extname(file)), extname(file)),
                     !.pc = "read"]

\* the for loop goes on with the next file, or ends
NextIteration(call) ==
    IF call.position <= Len(call.componentFiles) THEN BeginIteration(call) ELSE Generate(call)

\* readdir succeeds: the listing is filtered and the loop begins
Readdir(s) ==
    /\ calls[s].pc = "readdir"
    /\ calls[s].componentsDir \in DOMAIN dirs
    /\ LET files == FileNames(dirs[calls[s].componentsDir])
       IN  calls' = [calls EXCEPT ![s] =
                       NextIteration([@ EXCEPT !.files = files,
                                               !.componentFiles = FilterFiles(fullConfig, files)])]
    /\ UNCHANGED << fullConfig, environment, dirs, exitCode, runs, caller, otherParty, previous >>

\* readdir fails: outer catch
ReaddirError(s) ==
    /\ calls[s].pc = "readdir"
    /\ \E code \in FailureCodes(calls[s].componentsDir) :
          calls' = [calls EXCEPT ![s] =
                      [@ EXCEPT !.errors = Append(@, ErrorMessage(code)), !.pc = "done"]]
    /\ exitCode' = 1
    /\ UNCHANGED << fullConfig, environment, dirs, runs, caller, otherParty, previous >>

\* readFile succeeds on a file that is in the directory and can be read
CanRead(dir, file) ==
    /\ dir \in DOMAIN dirs
    /\ HasFile(dirs[dir], file)
    /\ FileNamed(dirs[dir], file).readable

\* the rest of an iteration whose file was read and parsed
FileProcessed(call, source) ==
    LET componentName == basename(source.name, extname(source.name))
        records == extractExports(source.ast)
        allExports == AllExports(records, fullConfig.typePatterns)
    IN  [call EXCEPT !.sources = Append(@, [name |-> source.name, ok |-> TRUE, ast |-> source.ast]),
                     !.componentExports =
                         IF Len(allExports) > 0 THEN MapSet(@, componentName, allExports) ELSE @,
                     !.typesDetectedCount =
                         @ + Len(SelectNames(records.exports, fullConfig.typePatterns, TRUE)),
                     !.processedCount = @ + 1,
                     !.position = @ + 1]

\* the rest of an iteration whose file could not be read: a warning
FileFailed(call, file) ==
    [call EXCEPT !.sources = Append(@, [name |-> file, ok |-> FALSE, ast |-> SourceFile(<< >>)]),
                 !.warnings = Append(@, file),
                 !.processedCount = @ + 1,
                 !.position = @ + 1]

\* ProcessFile without the try / catch around one file: a read failure
\* reaches the outer catch and ends the call
ProcessFileFailureEscapes(s) ==
    /\ calls[s].pc = "read"
    /\ LET call == calls[s]
           file == call.componentFiles[call.position]
       IN  IF CanRead(call.componentsDir, file)
           THEN /\ calls' = [calls EXCEPT ![s] =
                               NextIteration(FileProcessed(call,
                                   FileNamed(dirs[call.componentsDir], file)))]
                /\ UNCHANGED exitCode
           ELSE /\ calls' = [calls EXCEPT ![s] =
                               [call EXCEPT !.errors = Append(@, ErrorMessage("EACCES")),
                                            !.pc = "done"]]
                /\ exitCode' = 1
    /\ UNCHANGED << fullConfig, environment, dirs, runs, caller, otherParty, previous >>

\* readFile of the current file resolves or rejects: the rest of the
\* iteration, and then the next iteration or the end of the loop
ProcessFile(s) ==
    /\ calls[s].pc = "read"
    /\ LET call == calls[s]
           file == call.componentFiles[call.position]
       IN  calls' = [calls EXCEPT ![s] =
                       NextIteration(
                           IF CanRead(call.componentsDir, file)
                           THEN FileProcessed(call, FileNamed(dirs[call.componentsDir], file))
                           ELSE FileFailed(call, file))]
    /\ UNCHANGED << fullConfig, environment, dirs, exitCode, runs, caller, otherParty, previous >>

\* ListingAfterWrite that leaves an existing file as it is
ListingAfterWriteKeepsExisting(listing, file) ==
    IF HasFile(listing, file.name)
    THEN listing
    ELSE LET before == { k \in 1..Len(listing) : StrLess(listing[k].name, file.name) }
         IN  SubSeq(listing, 1, Cardinality(before)) \o <<file>>
             \o SubSeq(listing, Cardinality(before) + 1, Len(listing))

\* the listing after writeFile opened the file: an existing file keeps its
\* place and gets the new content, a new file stands where its name sorts
ListingAfterWrite(listing, file) ==
    IF HasFile(listing, file.name)
    THEN [k \in 1..Len(listing) |->
            IF listing[k].name = file.name
            THEN [file EXCEPT !.readable = listing[k].readable]
            ELSE listing[k]]
    ELSE LET before == { k \in 1..Len(listing) : StrLess(listing[k].name, file.name) }
         IN  SubSeq(listing, 1, Cardinality(before)) \o <<file>>
             \o SubSeq(listing, Cardinality(before) + 1, Len(listing))

\* what a file holds after text is written at its start: text beyond the
\* length of the new text stays (the file is truncated when it is opened,
\* not when it is written)
Overwrite(old, text) ==
    IF Len(old) <= Len(text) THEN text ELSE text \o SubSeq(old, Len(text) + 1, Len(old))

\* the export declarations the error-tolerant parser finds in the text of an
\* index file, whole or cut, or followed by what is left of an older index
\* text: every "export {" begins a declaration, its specifiers run to the
\* next "}" or, in a text that ends inside the list, to the end of the text
\* (the missing "}" is a diagnostic only); what follows the "}" (from, the
\* module, the semicolon) may be missing; a word cut in two is the name it
\* spells, and a final "type" with no name behind it is a name itself
TextStatements(text) ==
    LET starts == Ascending(Occurrences(text, "export {"))
        braces == Occurrences(text, "}")
        Close(start) ==
            LET later == { c \in braces : c > start }
            IN  IF later = {} THEN Len(text) + 1 ELSE Least(later)
        lists == [k \in 1..Len(starts) |->
                     Split(SubSeq(text, starts[k] + Len("export {"), Close(starts[k]) - 1), ",")]
        IsSpecifier(piece) == Trim(piece) # ""
        Elements(list) ==
            LET specifiers == SelectSeq(list, IsSpecifier)
            IN  [j \in 1..Len(specifiers) |-> SpecifierElement(Trim(specifiers[j]))]
    IN  [k \in 1..Len(lists) |-> NamedExports(Elements(lists[k]))]

\* the output file after text is written at its start over what it held
OutputFile(old, text) ==
    [name |-> fullConfig.outputFile, readable |-> TRUE, text |-> Overwrite(old, text),
     ast |-> SourceFile(TextStatements(Overwrite(old, text)))]

\* writeFile opens the output file (O_CREAT | O_TRUNC): the file is created,
\* or emptied
WriteOpen(s) ==
    /\ calls[s].pc = "write"
    /\ calls[s].componentsDir \in DOMAIN dirs
    /\ dirs' = [dirs EXCEPT ![calls[s].componentsDir] = ListingAfterWrite(@, OutputFile("", ""))]
    /\ calls' = [calls EXCEPT ![s].pc = "writing"]
    /\ UNCHANGED << fullConfig, environment, exitCode, runs, caller, otherParty, previous >>

\* the open of writeFile fails: outer catch, the directory is as it was
WriteError(s) ==
    /\ calls[s].pc = "write"
    /\ \E code \in FailureCodes(calls[s].componentsDir) :
          calls' = [calls EXCEPT ![s] =
                      [@ EXCEPT !.errors = Append(@, ErrorMessage(code)), !.pc = "done"]]
    /\ exitCode' = 1
    /\ UNCHANGED << fullConfig, environment, dirs, runs, caller, otherParty, previous >>

\* the text in the output file of a listing, "" when the file is not there
TextOf(listing, name) == IF HasFile(listing, name) THEN FileNamed(listing, name).text ELSE ""

\* the directories after the writeFile of a call has the first n characters
\* of its text in the file; a file that is no longer in the directory is
\* written without being seen
DirsAfterWrite(call, n) ==
    IF call.componentsDir \in DOMAIN dirs
       /\ HasFile(dirs[call.componentsDir], fullConfig.outputFile)
    THEN [dirs EXCEPT ![call.componentsDir] =
             ListingAfterWrite(@, OutputFile(TextOf(@, fullConfig.outputFile),
                                             SubSeq(call.indexContent, 1, n)))]
    ELSE dirs

\* the text of the call does not fit under the file-size limit of the process
OverLimit(call) ==
    /\ environment.fileSizeLimit >= 0
    /\ environment.fileSizeLimit < Len(call.indexContent)

\* the first write of writeFile writes the whole text at the start of the
\* file it has opened
WriteData(s) ==
    /\ calls[s].pc = "writing"
    /\ calls[s].written = 0
    /\ ~OverLimit(calls[s])
    /\ dirs' = DirsAfterWrite(calls[s], Len(calls[s].indexContent))
    /\ calls' = [calls EXCEPT ![s] =
                    [@ EXCEPT !.written = Len(calls[s].indexContent), !.pc = "closing"]]
    /\ UNCHANGED << fullConfig, environment, exitCode, runs, caller, otherParty, previous >>

\* the first write of writeFile is short: it writes the text up to the
\* file-size limit, and writeFile goes on to write the rest
WriteShort(s) ==
    /\ calls[s].pc = "writing"
    /\ calls[s].written = 0
    /\ OverLimit(calls[s])
    /\ environment.fileSizeLimit > 0
    /\ dirs' = DirsAfterWrite(calls[s], environment.fileSizeLimit)
    /\ calls' = [calls EXCEPT ![s].written = environment.fileSizeLimit]
    /\ UNCHANGED << fullConfig, environment, exitCode, runs, caller, otherParty, previous >>

\* the codes a write of writeFile fails with, after the file was opened:
\* EFBIG for a write beyond the file-size limit
AfterOpenCodes(call) ==
    IF OverLimit(call) /\ call.written = environment.fileSizeLimit THEN {"EFBIG"} ELSE {"EIO"}

\* a write of writeFile fails: the file stays as the earlier steps left it
\* (empty, or with the start of the text), and writeFile goes on to close it
WriteDataError(s) ==
    /\ calls[s].pc = "writing"
    /\ \E code \in AfterOpenCodes(calls[s]) :
          calls' = [calls EXCEPT ![s] = [@ EXCEPT !.failure = code, !.pc = "failing"]]
    /\ UNCHANGED << fullConfig, environment, dirs, exitCode, runs, caller, otherParty, previous >>

\* WriteRejected without the assignment to process.exitCode
WriteRejectedKeepsExitCode(s) ==
    /\ calls[s].pc = "failing"
    /\ calls' = [calls EXCEPT ![s] =
                    [@ EXCEPT !.errors = Append(@, ErrorMessage(calls[s].failure)), !.pc = "done"]]
    /\ UNCHANGED << fullConfig, environment, dirs, exitCode, runs, caller, otherParty, previous >>

\* writeFile has closed the file after the failed write and rejects with the
\* error of the write: outer catch
WriteRejected(s) ==
    /\ calls[s].pc = "failing"
    /\ calls' = [calls EXCEPT ![s] =
                    [@ EXCEPT !.errors = Append(@, ErrorMessage(calls[s].failure)), !.pc = "done"]]
    /\ exitCode' = 1
    /\ UNCHANGED << fullConfig, environment, dirs, runs, caller, otherParty, previous >>

\* writeFile closes the file and resolves: the call logs what it generated
\* and returns
WriteOutput(s) ==
    /\ calls[s].pc = "closing"
    /\ calls' = [calls EXCEPT ![s] = [@ EXCEPT !.writes = @ + 1, !.pc = "done"]]
    /\ UNCHANGED << fullConfig, environment, dirs, exitCode, runs, caller, otherParty, previous >>

\* another party removes a file of a directory
OtherPartyRemovesFile ==
    /\ otherParty # << >>
    /\ Head(otherParty).op = "remove"
    /\ dirs' = [p \in DOMAIN dirs |->
                  IF p = Head(otherParty).dir
                  THEN SelectSeq(dirs[p], LAMBDA f : f.name # Head(otherParty).file)
                  ELSE dirs[p]]
    /\ otherParty' = Tail(otherParty)
    /\ UNCHANGED << fullConfig, environment, exitCode, runs, caller, calls, previous >>

\* another party changes the project files and the conventional
\* directories of the working directory; the file-size limit of the
\* process stays
OtherPartyChangesProject ==
    /\ otherParty # << >>
    /\ Head(otherParty).op = "project"
    /\ environment' = [Head(otherParty).project EXCEPT
                          !.fileSizeLimit = environment.fileSizeLimit]
    /\ dirs' = [p \in { q \in DOMAIN dirs :
                          q \in Range(commonPaths) => q \in Head(otherParty).project.directories }
                      \cup (Range(commonPaths) \cap Head(otherParty).project.directories) |->
                  IF p \in DOMAIN dirs THEN dirs[p] ELSE << >>]
    /\ otherParty' = Tail(otherParty)
    /\ UNCHANGED << fullConfig, exitCode, runs, caller, calls, previous >>

Next ==
    \/ \E s \in Slots : StartRun(s)
    \/ \E s \in Slots : ImportResolved(s)
    \/ \E s \in Slots : DetectMonorepo(s)
    \/ \E s \in Slots : ProbeExtensions(s)
    \/ \E s \in Slots : FindUIComponents(s)
    \/ \E s \in Slots : StatOk(s)
    \/ \E s \in Slots : StatNotFound(s)
    \/ \E s \in Slots : StatError(s)
    \/ \E s \in Slots : Readdir(s)
    \/ \E s \in Slots : ReaddirError(s)
    \/ \E s \in Slots : ProcessFile(s)
    \/ \E s \in Slots : WriteOpen(s)
    \/ \E s \in Slots : WriteError(s)
    \/ \E s \in Slots : WriteData(s)
    \/ \E s \in Slots : WriteShort(s)
    \/ \E s \in Slots : WriteDataError(s)
    \/ \E s \in Slots : WriteRejected(s)
    \/ \E s \in Slots : WriteOutput(s)
    \/ OtherPartyRemovesFile
    \/ OtherPartyChangesProject

Spec == Init /\ [][Next]_vars

SpecOutput == InitOutput /\ [][Next]_vars

SpecExtensions == InitExtensions /\ [][Next]_vars

SpecExtract == InitExtract /\ [][Next]_vars

SpecMonorepo == InitMonorepo /\ [][Next]_vars

SpecFilter == InitFilter /\ [][Next]_vars

SpecCallers == InitCallers /\ [][Next]_vars

TypeOK ==
    /\ exitCode \in {0, 1}
    /\ runs \in 0..MaxRuns
    /\ \A s \in Slots :
          /\ calls[s].pc \in {"idle", "import", "detectMonorepo", "extensions", "findUI", "stat",
                              "readdir", "read", "write", "writing", "closing", "failing",
                              "done"}
          /\ calls[s].written \in 0..Len(calls[s].indexContent)
          /\ calls[s].probe \in 0..(Len(commonPaths) - 1)
          /\ calls[s].position \in 1..(Len(calls[s].componentFiles) + 1)
          /\ calls[s].pc = "read" => calls[s].position <= Len(calls[s].componentFiles)

(***************************************************************************)
(* Reading a generated text back: the statements of an index text, each    *)
(* with its module specifier, its export specifiers and its layout, to     *)
(* state properties of the text itself.                                    *)
(***************************************************************************)
\* the statements of an index text that starts with the header comment
ReadStatements(text, header) ==
    LET chunks == Split(SubSeq(text, Len(header) + 1, Len(text)), ";\n")
    IN  [k \in 1..(Len(chunks) - 1) |-> ReadStatement(chunks[k])]

\* the statements of the text a call composed
OutputStatements(call) == ReadStatements(call.indexContent, fullConfig.headerComment)

\* the call has just composed its text: it is about to write it, or it has
\* printed it and returned (dry run)
Composed(call) ==
    /\ call.generated
    /\ call.pc = (IF fullConfig.dryRun THEN "done" ELSE "write")

\* reading the text back gives the export declarations of ParsedIndex
ReadBackAgrees ==
    \A s \in Slots :
        Composed(calls[s]) =>
            LET tree == ParsedIndex(fullConfig, calls[s].componentExports).statements
                read == OutputStatements(calls[s])
            IN  /\ StartsWith(calls[s].indexContent, fullConfig.headerComment)
                /\ Len(read) = Len(tree)
                /\ \A k \in 1..Len(tree) :
                      [j \in 1..Len(tree[k].elements) |->
                          SpecifierElement(read[k].specifiers[j])] = tree[k].elements

(***************************************************************************)
(* Vocabulary of the properties                                            *)
(***************************************************************************)
\* positions of the files a call has read and parsed
ProcessedPositions(call) == { p \in 1..Len(call.sources) : call.sources[p].ok }

\* the derived base name of a file name
BaseName(name) == basename(name, extname(name))

\* identifiers declared by the exported const / let statements of a source file
DeclaredConsts(ast) ==
    UNION { { ast.statements[k].declarations[j].name :
                j \in { i \in 1..Len(ast.statements[k].declarations) :
                          ast.statements[k].declarations[i].isIdentifier } }
            : k \in { i \in 1..Len(ast.statements) :
                        /\ ast.statements[i].kind = "VariableStatement"
                        /\ ast.statements[i].exported } }

\* names declared by the exported interfaces and type aliases of a source file
DeclaredTypes(ast) ==
    { ast.statements[k].name :
        k \in { i \in 1..Len(ast.statements) :
                  /\ ast.statements[i].kind \in {"InterfaceDeclaration", "TypeAliasDeclaration"}
                  /\ ast.statements[i].exported } }

\* the name matches at least one configured type pattern
MatchesTypePattern(name) ==
    \E k \in 1..Len(fullConfig.typePatterns) : RegExpTest(fullConfig.typePatterns[k], name)

\* the base name a module specifier of a call was built from
BaseOfModule(call, module) ==
    IF call.useExplicitExtensions
    THEN basename(SubSeq(module, 3, Len(module)), extname(SubSeq(module, 3, Len(module))))
    ELSE SubSeq(module, 3, Len(module))

\* the statements of the read-back text that import from the module of a file
StatementsOf(call, read, name) ==
    { k \in 1..Len(read) : BaseOfModule(call, read[k].module) = BaseName(name) }

\* the names a statement lists, with or without the type modifier
ListedNames(statement) ==
    { SpecifierElement(statement.specifiers[k]).name : k \in 1..Len(statement.specifiers) }

\* the names a source file exports
ExportedNames(ast) ==
    Range(extractExports(ast).exports) \cup Range(extractExports(ast).typeExports)

\* the listing of the scanned directory when the call started
StartListing(call) == Summary(call).listing

\* no other party changed what the call listed and read after it had started
Undisturbed(call) == Summary(call).undisturbed

(***************************************************************************)
(* C1: for every scanned source file and every identifier Foo declared by  *)
(* an exported const / let statement in it, the statement generated for    *)
(* that file lists Foo as a plain specifier when Foo matches no configured *)
(* type pattern and as "type Foo" when it matches one.                     *)
(***************************************************************************)
C1_ConstExportsListed ==
    \A s \in Slots :
        Composed(calls[s]) =>
            LET call == calls[s]
                read == OutputStatements(call)
            IN  \A p \in ProcessedPositions(call) :
                    \A foo \in DeclaredConsts(call.sources[p].ast) :
                        \E k \in StatementsOf(call, read, call.sources[p].name) :
                            (IF MatchesTypePattern(foo) THEN "type " \o foo ELSE foo)
                                \in Range(read[k].specifiers)

(***************************************************************************)
(* C2: every name declared by export interface / export type in a          *)
(* successfully processed file is emitted with the type modifier, for every*)
(* configured pattern set, and never as a plain specifier.                 *)
(***************************************************************************)
C2_DeclaredTypesMarked ==
    \A s \in Slots :
        Composed(calls[s]) =>
            LET call == calls[s]
                read == OutputStatements(call)
            IN  \A p \in ProcessedPositions(call) :
                    \A foo \in DeclaredTypes(call.sources[p].ast) :
                        /\ \E k \in StatementsOf(call, read, call.sources[p].name) :
                              ("type " \o foo) \in Range(read[k].specifiers)
                        /\ \A k \in StatementsOf(call, read, call.sources[p].name) :
                              foo \notin Range(read[k].specifiers)

\* no two files that passed the filter of a call share a derived base name
DistinctBaseNames(call) ==
    \A a, b \in 1..Len(call.componentFiles) :
        a # b => BaseName(call.componentFiles[a]) # BaseName(call.componentFiles[b])

\* C1 and C2 fail only where two scanned files share a base name
C1C2_HoldWithoutSharedBaseName ==
    (\A s \in Slots : DistinctBaseNames(calls[s])) => (C1_ConstExportsListed /\ C2_DeclaredTypesMarked)

(***************************************************************************)
(* C3: idempotence.  A call of generateIndex that follows a call of the    *)
(* same generateIndex with the same configuration and extension mode, over *)
(* the scanned directory as that call left it, and with no other party     *)
(* changing the directory while either runs, composes the text the         *)
(* earlier call composed, byte for byte.                                   *)
(***************************************************************************)
\* the scanned directory as a call that was not disturbed left it: as it
\* was after a dry run, and with the text of the call in the output file
\* otherwise
ListingAfterRun(a) ==
    IF fullConfig.dryRun
    THEN a.listing
    ELSE ListingAfterWrite(a.listing, OutputFile("", a.content))

\* the call in slot s has composed its text over the directory the call
\* before it left, both undisturbed and with the same extension mode
SecondRun(s) ==
    /\ Composed(calls[s])
    /\ previous.valid
    /\ previous.undisturbed /\ Undisturbed(calls[s])
    /\ previous.older = calls[s].older
    /\ previous.useExplicitExtensions = calls[s].useExplicitExtensions
    /\ previous.componentsDir = calls[s].componentsDir
    /\ StartListing(calls[s]) = ListingAfterRun(previous)

\* C3: a second run over the directory as the first run left it composes byte-identical text
C3_Idempotent ==
    \A s \in Slots : SecondRun(s) => calls[s].indexContent = previous.content

\* C3 holds when the output file has the default name
C3_HoldsForDefaultOutputFile ==
    fullConfig.outputFile = defaultConfig.outputFile => C3_Idempotent

\* a second run over the directory the first run left, output file
\* included, has composed another text than the first
C3_SecondRunDiffers ==
    \E s \in Slots :
        /\ SecondRun(s)
        /\ ~fullConfig.dryRun
        /\ StartListing(calls[s]) # previous.listing
        /\ calls[s].indexContent # previous.content

(***************************************************************************)
(* C4: threshold boundary.  A statement with at most singleLineThreshold   *)
(* specifiers is one line; a statement with more is multi-line, one        *)
(* specifier per line between the opening and the closing line.            *)
(***************************************************************************)
C4_ThresholdLayout ==
    \A s \in Slots :
        Composed(calls[s]) =>
            LET read == OutputStatements(calls[s])
            IN  \A k \in 1..Len(read) :
                    IF Len(read[k].specifiers) <= fullConfig.singleLineThreshold
                    THEN read[k].singleLine /\ read[k].lines = 1
                    ELSE ~read[k].singleLine /\ read[k].lines = Len(read[k].specifiers) + 2

\* a text with a statement of exactly singleLineThreshold specifiers on one
\* line and a statement of singleLineThreshold + 1 specifiers on several
C4_Witness ==
    \E s \in Slots :
        /\ Composed(calls[s])
        /\ LET read == OutputStatements(calls[s])
           IN  /\ \E k \in 1..Len(read) :
                     /\ Len(read[k].specifiers) = fullConfig.singleLineThreshold
                     /\ read[k].singleLine
               /\ \E k \in 1..Len(read) :
                     /\ Len(read[k].specifiers) = fullConfig.singleLineThreshold + 1
                     /\ ~read[k].singleLine

(***************************************************************************)
(* C5: with sortAlphabetically, the statements are in strictly ascending   *)
(* order of their component base names.                                    *)
(***************************************************************************)
C5_SortedStrictly ==
    \A s \in Slots :
        (Composed(calls[s]) /\ fullConfig.sortAlphabetically) =>
            LET read == OutputStatements(calls[s])
            IN  \A k \in 1..(Len(read) - 1) :
                    StrLess(BaseOfModule(calls[s], read[k].module),
                            BaseOfModule(calls[s], read[k + 1].module))

\* a sorted text whose statements are not in the order the files were listed
C5_Witness ==
    \E s \in Slots :
        /\ Composed(calls[s])
        /\ fullConfig.sortAlphabetically
        /\ Len(calls[s].componentExports) >= 2
        /\ MapKeys(calls[s].componentExports) # SortNames(MapKeys(calls[s].componentExports))
        /\ Len(OutputStatements(calls[s])) = Len(calls[s].componentExports)

(***************************************************************************)
(* C6: with sortAlphabetically false, the statements appear in the order   *)
(* in which the directory listing enumerated the files whose exports they  *)
(* list, also when two scanned files share a base name.                    *)
(***************************************************************************)
\* positions of the files a statement lists the exports of, in the order
\* in which the listing enumerated them
SourcePositions(call, statement) ==
    { p \in ProcessedPositions(call) :
        /\ BaseOfModule(call, statement.module) = BaseName(call.sources[p].name)
        /\ ListedNames(statement) = ExportedNames(call.sources[p].ast) }

\* C6: with sortAlphabetically false the statements follow the order in which the listing enumerated the files whose exports they list
C6_UnsortedFollowsListing ==
    \A s \in Slots :
        (Composed(calls[s]) /\ ~fullConfig.sortAlphabetically) =>
            LET call == calls[s]
                read == OutputStatements(call)
            IN  \A k \in 1..(Len(read) - 1) :
                    \A a \in SourcePositions(call, read[k]) :
                        \A b \in SourcePositions(call, read[k + 1]) : a < b

\* C6 fails only where two scanned files share a base name
C6_HoldsWithoutSharedBaseName ==
    (\A s \in Slots : DistinctBaseNames(calls[s])) => C6_UnsortedFollowsListing

(***************************************************************************)
(* C7: with dryRun true no call creates or modifies the output file; the   *)
(* write is never performed.  The directories change only by what another  *)
(* party does.                                                             *)
(***************************************************************************)
C7_DryRunNeverWrites ==
    [][fullConfig.dryRun =>
          /\ dirs' # dirs => otherParty' # otherParty
          /\ \A s \in Slots :
                /\ calls'[s].writes = 0
                /\ calls'[s].pc \notin {"write", "writing", "closing", "failing"}]_vars

\* a dry run has returned with a text that differs from the output file on disk
C7_Witness ==
    \E s \in Slots :
        /\ calls[s].pc = "done"
        /\ fullConfig.dryRun
        /\ calls[s].generated
        /\ Len(calls[s].componentExports) >= 1
        /\ calls[s].componentsDir \in DOMAIN dirs
        /\ \E k \in 1..Len(dirs[calls[s].componentsDir]) :
              /\ dirs[calls[s].componentsDir][k].name = fullConfig.outputFile
              /\ dirs[calls[s].componentsDir][k].text # calls[s].indexContent

(***************************************************************************)
(* C8 as stated: with dryRun false, every call (over)writes the output     *)
(* file with the generated text.                                           *)
(***************************************************************************)
\* the output file is once in the listing, with the text
OutputFileHoldsText(listing, text) ==
    /\ \E k \in 1..Len(listing) : listing[k].name = fullConfig.outputFile /\ listing[k].text = text
    /\ Cardinality({ k \in 1..Len(listing) : listing[k].name = fullConfig.outputFile }) = 1

\* the step in which the writeFile of the call in slot s writes its text
WritesText(s) == calls[s].pc = "writing" /\ calls'[s].pc = "closing"

\* the text of the output file in the directory of the call in slot s
OutputText(directories, s) ==
    IF calls[s].componentsDir \in DOMAIN directories
    THEN TextOf(directories[calls[s].componentsDir], fullConfig.outputFile)
    ELSE ""

\* when the call in slot s returns, its writeFile has resolved, once
ReturnsWritten(s) ==
    (calls[s].pc # "done" /\ calls'[s].pc = "done")
        => /\ calls'[s].generated
           /\ calls[s].pc = "closing"
           /\ calls'[s].writes = 1

\* C8: with dryRun false every call that ends has written the output file, and when it
\* writes the file holds the generated text in place of any other content
C8_EveryRunWrites ==
    [][~fullConfig.dryRun =>
          \A s \in Slots :
              /\ ReturnsWritten(s)
              /\ WritesText(s) =>
                    /\ calls[s].componentsDir \in DOMAIN dirs'
                    /\ OutputFileHoldsText(dirs'[calls[s].componentsDir], calls[s].indexContent)]_vars

(***************************************************************************)
(* C8 amended: with dryRun false, every call that ends without a           *)
(* directory-not-found or filesystem error report has written the output   *)
(* file once: writeFile has emptied the file and written the generated     *)
(* text from its first character on.  The file then holds that text, and   *)
(* behind it only what an overlapping call wrote after the file was        *)
(* emptied.                                                                *)
(***************************************************************************)
C8_CompletedRunWrites ==
    [][~fullConfig.dryRun =>
          \A s \in Slots :
              /\ calls'[s].errors = << >> => ReturnsWritten(s)
              /\ WritesText(s) =>
                    /\ StartsWith(OutputText(dirs', s), calls[s].indexContent)
                    /\ OutputText(dirs, s) = "" =>
                          OutputFileHoldsText(dirs'[calls[s].componentsDir], calls[s].indexContent)]_vars

\* a call has replaced an output file that held another text
C8_Witness ==
    \E s \in Slots :
        /\ calls[s].pc = "done"
        /\ ~fullConfig.dryRun
        /\ calls[s].errors = << >>
        /\ calls[s].writes = 1
        /\ Len(calls[s].componentExports) >= 1
        /\ \E k \in 1..Len(StartListing(calls[s])) :
              /\ StartListing(calls[s])[k].name = fullConfig.outputFile
              /\ StartListing(calls[s])[k].text # calls[s].indexContent
        /\ OutputFileHoldsText(dirs[calls[s].componentsDir], calls[s].indexContent)

(***************************************************************************)
(* C9: a directory that contains only excluded files (.d.ts, .test.tsx,    *)
(* .stories.tsx or the configured output file itself) gives the header     *)
(* comment only, for every configured output file name.                    *)
(***************************************************************************)
ExcludedByDesign(name) ==
    \/ EndsWith(name, ".d.ts")
    \/ EndsWith(name, ".test.tsx")
    \/ EndsWith(name, ".stories.tsx")
    \/ name = fullConfig.outputFile

\* C9: a directory holding only files excluded by design yields the header and no statement
C9_OnlyExcludedGivesHeader ==
    \A s \in Slots :
        (/\ Composed(calls[s])
         /\ Len(calls[s].files) > 0
         /\ \A k \in 1..Len(calls[s].files) : ExcludedByDesign(calls[s].files[k]))
            => calls[s].indexContent = fullConfig.headerComment

\* C9 holds when the output file has the default name
C9_HoldsForDefaultOutputFile ==
    fullConfig.outputFile = defaultConfig.outputFile => C9_OnlyExcludedGivesHeader

(***************************************************************************)
(* C10: per-file failure isolation.  A read failure on a component file is *)
(* reported as a warning, contributes no exports, leaves the exit code     *)
(* alone and lets the loop go on; every file is processed and every        *)
(* readable file is rendered as it is without the failure.                 *)
(***************************************************************************)
\* the call awaits readFile of a file that is gone or cannot be read
AtUnreadableFile(call) ==
    /\ call.pc = "read"
    /\ ~CanRead(call.componentsDir, call.componentFiles[call.position])

\* the file read at p is the last of its base name that exports something
Surviving(call, p) ==
    /\ ExportedNames(call.sources[p].ast) # {}
    /\ \A q \in ProcessedPositions(call) :
          (q > p /\ BaseName(call.sources[q].name) = BaseName(call.sources[p].name))
              => ExportedNames(call.sources[q].ast) = {}

\* C10: a file that cannot be read gives one warning and no exports, the later files are still processed and rendered, the exit code is untouched
C10_PerFileFailureIsolated ==
    /\ [][\A s \in Slots :
            (AtUnreadableFile(calls[s]) /\ calls'[s] # calls[s]) =>
                /\ calls'[s].warnings
                      = Append(calls[s].warnings, calls[s].componentFiles[calls[s].position])
                /\ calls'[s].componentExports = calls[s].componentExports
                /\ calls'[s].errors = calls[s].errors
                /\ exitCode' = exitCode
                /\ calls'[s].position = calls[s].position + 1
                /\ calls'[s].processedCount = calls[s].processedCount + 1
                /\ IF calls'[s].position <= Len(calls[s].componentFiles)
                   THEN calls'[s].pc = "read"
                   ELSE calls'[s].generated]_vars
    /\ [](\A s \in Slots :
            Composed(calls[s]) =>
                LET call == calls[s]
                    read == OutputStatements(call)
                IN  /\ call.processedCount = Len(call.componentFiles)
                    /\ Len(call.sources) = Len(call.componentFiles)
                    /\ \A p \in 1..Len(call.sources) :
                          ~call.sources[p].ok => call.sources[p].name \in Range(call.warnings)
                    /\ \A p \in ProcessedPositions(call) :
                          Surviving(call, p) =>
                              \E k \in StatementsOf(call, read, call.sources[p].name) :
                                  ListedNames(read[k]) = ExportedNames(call.sources[p].ast))

\* a text was composed after a file failed, with a later file rendered and
\* the exit code still 0
C10_Witness ==
    \E s \in Slots :
        /\ Composed(calls[s])
        /\ exitCode = 0
        /\ \E n \in 1..Len(calls[s].componentFiles) :
              /\ calls[s].componentFiles[n] \in Range(calls[s].warnings)
              /\ \E m \in (n + 1)..Len(calls[s].componentFiles) :
                    \E k \in 1..Len(OutputStatements(calls[s])) :
                        BaseOfModule(calls[s], OutputStatements(calls[s])[k].module)
                            = BaseName(calls[s].componentFiles[m])
(***************************************************************************)
(* C11: target not found.  When stat fails with ENOENT the call reports it *)
(* and returns: the directory is not listed, no file is processed, nothing *)
(* is composed or written, and the exit code is left as it was.            *)
(***************************************************************************)
\* the call has reported that the directory was not found
NotFoundReported(call) ==
    call.errors # << >> /\ call.errors[Len(call.errors)] = "Directory not found"

\* C11: a missing scan directory is reported and the call returns without listing, processing, writing or setting the exit code
C11_NotFoundIsCleanNoOp ==
    /\ [][\A s \in Slots :
            (calls'[s].errors # calls[s].errors /\ NotFoundReported(calls'[s]))
                => /\ calls[s].pc = "stat"
                   /\ calls'[s].pc = "done"
                   /\ exitCode' = exitCode
                   /\ dirs' = dirs
                   /\ calls'[s].writes = 0]_vars
    /\ [](\A s \in Slots :
            (calls[s].pc = "done" /\ NotFoundReported(calls[s]))
                => /\ calls[s].files = << >>
                   /\ calls[s].componentFiles = << >>
                   /\ calls[s].sources = << >>
                   /\ calls[s].processedCount = 0
                   /\ calls[s].componentExports = << >>
                   /\ ~calls[s].generated
                   /\ calls[s].writes = 0)

\* a first call has returned after reporting the missing directory, exit code 0
C11_Witness ==
    \E s \in Slots :
        /\ calls[s].pc = "done"
        /\ runs = 1
        /\ calls[s].componentsDir \notin DOMAIN dirs
        /\ calls[s].errors = << "Directory not found" >>
        /\ exitCode = 0
        /\ calls[s].writes = 0

(***************************************************************************)
(* C12: a filesystem failure of stat (other than ENOENT), of the directory *)
(* listing or of the final write is reported, ends the call at once and    *)
(* sets the exit code to 1.                                                *)
(***************************************************************************)
\* the messages the outer catch prints for an error with a code
FsFailureMessages == { ErrorMessage(code) : code \in FsErrorCodes \cup {"ENOENT"} }

\* the call has ended in the outer catch
CallFailed(call) ==
    call.errors # << >> /\ call.errors[Len(call.errors)] \in FsFailureMessages

\* C12: a failing stat (other than ENOENT), readdir or writeFile (at its open or at a write after
\* it) is reported, ends the call at once and sets the exit code to 1
C12_FsFailureAborts ==
    /\ [][\A s \in Slots :
            (calls'[s].errors # calls[s].errors /\ CallFailed(calls'[s]))
                => /\ calls[s].pc \in {"stat", "readdir", "write", "failing"}
                   /\ calls'[s].pc = "done"
                   /\ exitCode' = 1
                   /\ calls'[s].writes = calls[s].writes
                   /\ calls'[s].sources = calls[s].sources]_vars
    /\ [][\A s \in Slots :
            (calls[s].pc # "failing" /\ calls'[s].pc = "failing")
                => /\ calls[s].pc = "writing"
                   /\ calls'[s].failure # ""
                   /\ calls'[s].errors = calls[s].errors
                   /\ calls'[s].writes = calls[s].writes]_vars
    /\ [][\A s \in Slots :
            (calls[s].pc = "failing" /\ calls'[s] # calls[s])
                => /\ calls'[s].pc = "done"
                   /\ calls'[s].errors = Append(calls[s].errors, ErrorMessage(calls[s].failure))
                   /\ exitCode' = 1]_vars
    /\ [](\A s \in Slots :
            (calls[s].pc = "done" /\ CallFailed(calls[s]))
                => /\ exitCode = 1
                   /\ Len(calls[s].errors) = 1
                   /\ calls[s].writes = 0)

\* a first call whose writeFile failed after it had opened the output file
\* and written the beginning of the text has ended with the report and exit
\* code 1
C12_Witness ==
    \E s \in Slots :
        /\ calls[s].pc = "done"
        /\ runs = 1
        /\ calls[s].generated
        /\ ~fullConfig.dryRun
        /\ calls[s].failure = "EFBIG"
        /\ calls[s].written > 0
        /\ calls[s].written < Len(calls[s].indexContent)
        /\ calls[s].errors = << "Operation failed" >>
        /\ calls[s].writes = 0
        /\ exitCode = 1
        /\ calls[s].componentsDir \in DOMAIN dirs
        /\ \E k \in DOMAIN dirs[calls[s].componentsDir] :
              /\ dirs[calls[s].componentsDir][k].name = fullConfig.outputFile
              /\ dirs[calls[s].componentsDir][k].text
                     = SubSeq(calls[s].indexContent, 1, calls[s].written)

(***************************************************************************)
(* C13: a call writes the output file at most once, and only after every   *)
(* component file has been processed; a call that ends before that point   *)
(* never writes; and a call that fails leaves no partial output: the       *)
(* output file is as it was before the call.                               *)
(***************************************************************************)
\* the output file of a listing, << >> when there is none
OutputFileOf(listing) ==
    LET IsOutput(file) == file.name = fullConfig.outputFile
    IN  SelectSeq(listing, IsOutput)

\* a step of the call in slot s that changes a directory or counts a write
\* is a step of its one writeFile, after all files have been processed
WritesAfterAllFiles(s) ==
    (calls'[s] # calls[s] /\ (dirs' # dirs \/ calls'[s].writes > calls[s].writes))
        => /\ \/ calls[s].pc = "write" /\ calls'[s].pc = "writing"
              \/ calls[s].pc = "writing" /\ calls'[s].pc \in {"writing", "closing"}
              \/ calls[s].pc = "closing" /\ calls'[s].pc = "done" /\ dirs' = dirs
           /\ calls[s].generated
           /\ calls[s].position = Len(calls[s].componentFiles) + 1
           /\ calls[s].processedCount = Len(calls[s].componentFiles)
           /\ calls[s].writes = 0
           /\ calls'[s].writes <= 1

\* a call that ends with a failure report has not touched the output file:
\* its writeFile has not opened it
FailedCallKeepsOutput(s) ==
    (calls'[s].errors # calls[s].errors /\ calls'[s].errors # << >>)
        => calls[s].pc \notin {"writing", "closing", "failing"}

\* C13: the output file is written at most once, after every file was processed, and a call
\* that fails has left the output file as it was
C13_WriteOnceNoPartialOutput ==
    [][\A s \in Slots : WritesAfterAllFiles(s) /\ FailedCallKeepsOutput(s)]_vars

\* C13 without its last part: one write at most, after all files; a call
\* that ends before it has composed its text changes no directory
C13_WriteOnceAfterAllFiles ==
    /\ [][\A s \in Slots : WritesAfterAllFiles(s)]_vars
    /\ [](\A s \in Slots : calls[s].writes <= 1 /\ (~calls[s].generated => calls[s].writes = 0))

\* a call whose write failed has left an empty output file where its
\* directory had one with statements
C13_OutputTruncated ==
    \E s \in Slots :
        /\ calls[s].pc = "done"
        /\ calls[s].errors = << "Operation failed" >>
        /\ calls[s].writes = 0
        /\ exitCode = 1
        /\ OutputFileOf(StartListing(calls[s])) # << >>
        /\ OutputFileOf(StartListing(calls[s]))[1].text # ""
        /\ calls[s].componentsDir \in DOMAIN dirs
        /\ OutputFileOf(dirs[calls[s].componentsDir]) # << >>
        /\ OutputFileOf(dirs[calls[s].componentsDir])[1].text = ""

(***************************************************************************)
(* C14: explicit configuration overrides the environment probe.  When the  *)
(* caller supplies componentsDir, the directory that is scanned and that   *)
(* receives the output file is the supplied one, also when a monorepo is   *)
(* detected and a conventional UI path exists.                             *)
(***************************************************************************)
\* the configured directory can only come from the caller: it is not the default
SuppliedComponentsDir == fullConfig.componentsDir # defaultConfig.componentsDir

\* the call has resolved the directory it scans
Resolved(call) ==
    call.pc \in {"stat", "readdir", "read", "write", "writing", "closing", "failing", "done"}

\* C14: a componentsDir supplied by the caller is the directory the call scans and writes to
C14_ExplicitDirScanned ==
    \A s \in Slots :
        (Resolved(calls[s]) /\ SuppliedComponentsDir)
            => calls[s].componentsDir = fullConfig.componentsDir

\* C14 fails only where the monorepo probe finds a conventional UI path
C14_HoldsWithoutMonorepoUIPath ==
    \A s \in Slots :
        (Resolved(calls[s]) /\ calls[s].componentsDir # fullConfig.componentsDir)
            => /\ ~calls[s].older
               /\ calls[s].isMonorepo
               /\ calls[s].componentsDir \in Range(commonPaths)

\* a call given a directory has written the output file into another one
C14_OutputWrittenElsewhere ==
    \E s \in Slots :
        /\ calls[s].pc = "done"
        /\ SuppliedComponentsDir
        /\ calls[s].writes = 1
        /\ calls[s].componentsDir # fullConfig.componentsDir
        /\ OutputFileOf(dirs[calls[s].componentsDir]) # << >>
        /\ OutputFileOf(dirs[fullConfig.componentsDir]) = << >>

(***************************************************************************)
(* Vocabulary of the extension claims                                      *)
(***************************************************************************)
\* the override extension with its leading dot
OverrideExtension ==
    IF StartsWith(fullConfig.extensionOverride, ".")
    THEN fullConfig.extensionOverride
    ELSE "." \o fullConfig.extensionOverride

\* the package.json a call probed declares type "module"
DeclaresModuleType(call) ==
    call.probed.packageJson.status = "ok" /\ call.probed.packageJson.type = "module"

\* the tsconfig.json a call probed requests node16 / nodenext resolution
RequestsStrictResolution(call) ==
    /\ call.probed.tsconfig.status = "ok"
    /\ call.probed.tsconfig.compilerOptions
    /\ \/ ToLower(call.probed.tsconfig.moduleResolution) \in {"node16", "nodenext"}
       \/ ToLower(call.probed.tsconfig.module) \in {"node16", "nodenext"}

\* positions of the files a call has read that export something
ExportingPositions(call) ==
    { p \in ProcessedPositions(call) : ExportedNames(call.sources[p].ast) # {} }

\* every statement's module specifier is "./" + a scanned base name + extension
AllSpecifiersCarry(call, read, extension) ==
    \A k \in 1..Len(read) :
        \E p \in ExportingPositions(call) :
            read[k].module = "./" \o BaseName(call.sources[p].name) \o extension

\* the call runs the current generateIndex
Current(call) == call.pc # "idle" /\ ~call.older

(***************************************************************************)
(* C15: with a non-empty extensionOverride every module specifier is       *)
(* "./" + base name + that extension, whatever forceExplicitExtensions is  *)
(* and whether or not an ESM / strict-resolution project is detected.      *)
(***************************************************************************)
C15_OverrideAlwaysApplied ==
    \A s \in Slots :
        (Composed(calls[s]) /\ Current(calls[s]) /\ fullConfig.extensionOverride # "")
            => AllSpecifiersCarry(calls[s], OutputStatements(calls[s]), OverrideExtension)

\* C15 fails only where neither the flag nor the project asks for extensions
C15_HoldsWhenExtensionsAreOn ==
    \A s \in Slots :
        (/\ Composed(calls[s]) /\ Current(calls[s]) /\ fullConfig.extensionOverride # ""
         /\ \/ fullConfig.forceExplicitExtensions
            \/ DeclaresModuleType(calls[s])
            \/ RequestsStrictResolution(calls[s]))
            => AllSpecifiersCarry(calls[s], OutputStatements(calls[s]), OverrideExtension)

\* an override extension was given and a specifier carries no extension
C15_OverrideIgnored ==
    \E s \in Slots :
        /\ Composed(calls[s])
        /\ Current(calls[s])
        /\ fullConfig.extensionOverride = ".js"
        /\ \E k \in 1..Len(OutputStatements(calls[s])) :
              OutputStatements(calls[s])[k].module = "./button"

(***************************************************************************)
(* C16: auto-detection.  With forceExplicitExtensions false and no         *)
(* override, specifiers carry no extension when package.json does not      *)
(* declare type "module" and tsconfig.json does not request node16 /       *)
(* nodenext; with either signal every specifier ends in .js.  A missing or *)
(* unparsable package.json / tsconfig.json is no signal and does not fail  *)
(* the call.  The files are those the call's probe read.                   *)
(***************************************************************************)
AutoDetection == ~fullConfig.forceExplicitExtensions /\ fullConfig.extensionOverride = ""

\* C16: in automatic mode the specifiers carry .js exactly when the project signals ESM or node16 / nodenext resolution
C16_AutoDetectedExtensions ==
    /\ [][\A s \in Slots :
            (calls[s].pc = "extensions" /\ calls'[s] # calls[s])
                => /\ calls'[s].errors = << >>
                   /\ calls'[s].pc \in {"extensions", "findUI", "stat"}
                   /\ exitCode' = exitCode]_vars
    /\ [](\A s \in Slots :
            (Composed(calls[s]) /\ Current(calls[s]) /\ AutoDetection) =>
                AllSpecifiersCarry(calls[s], OutputStatements(calls[s]),
                    IF DeclaresModuleType(calls[s]) \/ RequestsStrictResolution(calls[s])
                    THEN ".js" ELSE ""))

\* auto-detection found the signal in tsconfig.json next to an unparsable
\* package.json, and the statements of a .tsx and a .ts file name .js modules
C16_Witness ==
    \E s \in Slots :
        /\ Composed(calls[s])
        /\ Current(calls[s])
        /\ AutoDetection
        /\ calls[s].probed.packageJson.status = "unparsable"
        /\ RequestsStrictResolution(calls[s])
        /\ exitCode = 0
        /\ \E k \in 1..Len(OutputStatements(calls[s])) :
              OutputStatements(calls[s])[k].module = "./card.js"
        /\ \E k \in 1..Len(OutputStatements(calls[s])) :
              OutputStatements(calls[s])[k].module = "./button.js"
        /\ \E p \in ExportingPositions(calls[s]) : calls[s].sources[p].name = "button.ts"

(***************************************************************************)
(* C17: with forceExplicitExtensions and no override, the module specifier *)
(* of every statement is "./" + base name + the actual extension of the    *)
(* file whose exports the statement lists, for every directory content.    *)
(***************************************************************************)
C17_ActualExtensionOfListedFile ==
    \A s \in Slots :
        (/\ Composed(calls[s]) /\ Current(calls[s])
         /\ fullConfig.forceExplicitExtensions /\ fullConfig.extensionOverride = "")
            => LET call == calls[s]
                   read == OutputStatements(call)
               IN  \A k \in 1..Len(read) :
                      \E p \in ExportingPositions(call) :
                          /\ ListedNames(read[k]) = ExportedNames(call.sources[p].ast)
                          /\ read[k].module = "./" \o call.sources[p].name

\* C17 fails only where two scanned files share a base name
C17_HoldsWithoutSharedBaseName ==
    (\A s \in Slots : DistinctBaseNames(calls[s])) => C17_ActualExtensionOfListedFile

\* the statement that lists the exports of button.ts names the module button.tsx
C17_WrongExtension ==
    \E s \in Slots :
        /\ Composed(calls[s])
        /\ Current(calls[s])
        /\ fullConfig.forceExplicitExtensions
        /\ fullConfig.extensionOverride = ""
        /\ \E k \in 1..Len(OutputStatements(calls[s])) :
              /\ OutputStatements(calls[s])[k].module = "./button.tsx"
              /\ ListedNames(OutputStatements(calls[s])[k]) = ExportedNames(ButtonTs.ast)

(***************************************************************************)
(* C18: the text is the header comment followed by exactly one statement   *)
(* for each scanned component file that yielded at least one export, each  *)
(* listing that file's exports, and no statement for a file that yielded   *)
(* none or failed to be read.                                              *)
(***************************************************************************)
\* the statements that name the module of the file read at p and list its exports
StatementsListing(call, read, p) ==
    { k \in StatementsOf(call, read, call.sources[p].name) :
        ListedNames(read[k]) = ExportedNames(call.sources[p].ast) }

\* C18: every processed file with exports has exactly one statement listing its exports, a file without exports has none
C18_OneStatementPerExportingFile ==
    \A s \in Slots :
        Composed(calls[s]) =>
            LET call == calls[s]
                read == OutputStatements(call)
            IN  /\ StartsWith(call.indexContent, fullConfig.headerComment)
                /\ Len(read) = Cardinality(ExportingPositions(call))
                /\ \A p \in ExportingPositions(call) :
                      Cardinality(StatementsListing(call, read, p)) = 1
                /\ \A k \in 1..Len(read) :
                      \E p \in ExportingPositions(call) : k \in StatementsListing(call, read, p)

\* C18 fails only where two scanned files share a base name
C18_HoldsWithoutSharedBaseName ==
    (\A s \in Slots : DistinctBaseNames(calls[s])) => C18_OneStatementPerExportingFile

\* two files with exports were processed and the text has one statement
C18_TwoFilesOneStatement ==
    \E s \in Slots :
        /\ Composed(calls[s])
        /\ Cardinality(ExportingPositions(calls[s])) = 2
        /\ Len(OutputStatements(calls[s])) = 1
(***************************************************************************)
(* Vocabulary of the extractor claims                                      *)
(***************************************************************************)
\* the names the statements generated for the file read at p list
NamesListedFor(call, read, p) ==
    UNION { ListedNames(read[k]) : k \in StatementsOf(call, read, call.sources[p].name) }

\* the names exported by the statements at the top level of a source file
TopLevelNames(ast) ==
    UNION { Range(VisitNode(ast.statements[k], NoRecords).exports)
               \cup Range(VisitNode(ast.statements[k], NoRecords).typeExports)
            : k \in 1..Len(ast.statements) }

(***************************************************************************)
(* C19: only the top-level exported bindings of a source file are          *)
(* recorded: an exported declaration nested in a namespace or module block *)
(* gives no record and does not appear in the file's statement.            *)
(***************************************************************************)
C19_OnlyTopLevelRecorded ==
    \A s \in Slots :
        Composed(calls[s]) =>
            LET call == calls[s]
                read == OutputStatements(call)
            IN  \A p \in ProcessedPositions(call) :
                    /\ ExportedNames(call.sources[p].ast) \subseteq TopLevelNames(call.sources[p].ast)
                    /\ NamesListedFor(call, read, p) \subseteq TopLevelNames(call.sources[p].ast)

\* C19 fails only for files that hold a namespace or module block
C19_HoldsWithoutNamespaces ==
    (\A s \in Slots :
        \A p \in ProcessedPositions(calls[s]) :
            \A k \in 1..Len(calls[s].sources[p].ast.statements) :
                calls[s].sources[p].ast.statements[k].kind # "ModuleDeclaration")
        => C19_OnlyTopLevelRecorded

\* the statement of layout.ts lists the member of its namespace
C19_NestedExportListed ==
    \E s \in Slots :
        /\ Composed(calls[s])
        /\ \E k \in 1..Len(OutputStatements(calls[s])) :
              /\ OutputStatements(calls[s])[k].module = "./layout"
              /\ "gap" \in ListedNames(OutputStatements(calls[s])[k])
              /\ "Grid" \in ListedNames(OutputStatements(calls[s])[k])

(***************************************************************************)
(* C20: export default <identifier> records the identifier's name as a     *)
(* value export; export default of an anonymous function or of an arrow    *)
(* expression records the name "default" as a value export; export =       *)
(* records nothing.                                                        *)
(***************************************************************************)
\* the names the claim gives to the default exports at the top level of a
\* source file; a function declaration without a name is the tree of
\* "export default function () {}"
DefaultExportNames(ast) ==
    { IF ast.statements[k].kind = "ExportAssignment" /\ ast.statements[k].expression = "Identifier"
      THEN ast.statements[k].text
      ELSE "default"
      : k \in { i \in 1..Len(ast.statements) :
                  \/ /\ ast.statements[i].kind = "ExportAssignment"
                     /\ ~ast.statements[i].isExportEquals
                     /\ ast.statements[i].expression
                            \in {"Identifier", "FunctionExpression", "ArrowFunction"}
                  \/ /\ ast.statements[i].kind = "FunctionDeclaration"
                     /\ ast.statements[i].exported
                     /\ ast.statements[i].name = "" } }

\* the source file has an export = statement and no other export
OnlyExportEquals(ast) ==
    /\ \E k \in 1..Len(ast.statements) :
          ast.statements[k].kind = "ExportAssignment" /\ ast.statements[k].isExportEquals
    /\ \A k \in 1..Len(ast.statements) :
          \/ ast.statements[k].kind = "ExportAssignment" /\ ast.statements[k].isExportEquals
          \/ ast.statements[k].kind = "VariableStatement" /\ ~ast.statements[k].exported

\* C20: export default <identifier> records the identifier, export default of an anonymous
\* function or arrow records the name default, export = records nothing
C20_DefaultExportsRecorded ==
    \A s \in Slots :
        Composed(calls[s]) =>
            LET call == calls[s]
                read == OutputStatements(call)
            IN  \A p \in ProcessedPositions(call) :
                    LET ast == call.sources[p].ast
                        own == StatementsOf(call, read, call.sources[p].name)
                    IN  /\ DefaultExportNames(ast) \subseteq Range(extractExports(ast).exports)
                        /\ \A name \in DefaultExportNames(ast) :
                              \E k \in own : name \in Range(read[k].specifiers)
                        /\ OnlyExportEquals(ast) => (extractExports(ast) = NoRecords /\ own = {})

\* C20 fails only for export default function () {}
C20_HoldsWithoutAnonymousFunctionDeclaration ==
    (\A s \in Slots :
        \A p \in ProcessedPositions(calls[s]) :
            \A k \in 1..Len(calls[s].sources[p].ast.statements) :
                ~(/\ calls[s].sources[p].ast.statements[k].kind = "FunctionDeclaration"
                  /\ calls[s].sources[p].ast.statements[k].name = ""))
        => C20_DefaultExportsRecorded

\* the default exports of dialog.tsx and toast.tsx are listed, menu.tsx and
\* legacy.ts have no statement
C20_AnonymousFunctionSkipped ==
    \E s \in Slots :
        LET read == OutputStatements(calls[s])
        IN  /\ Composed(calls[s])
            /\ \E p \in ProcessedPositions(calls[s]) : calls[s].sources[p].name = "menu.tsx"
            /\ \A k \in 1..Len(read) : read[k].module # "./menu"
            /\ \E k \in 1..Len(read) :
                  read[k].module = "./toast" /\ read[k].specifiers = << "default" >>
            /\ \E k \in 1..Len(read) :
                  read[k].module = "./dialog" /\ read[k].specifiers = << "Dialog" >>

(***************************************************************************)
(* Vocabulary of the clause-order claim                                    *)
(***************************************************************************)
RECURSIVE ExportOccurrences(_)
\* the export records of a sequence of nodes in the order in which the names
\* occur in the file, each with the kind it is declared with
ExportOccurrences(nodes) ==
    IF Len(nodes) = 0 THEN << >>
    ELSE LET node == Head(nodes)
             records == VisitNode(node, NoRecords)
             own == IF node.kind = "ExportDeclaration" /\ node.clause = "NamedExports"
                    THEN [k \in 1..Len(node.elements) |->
                            [name |-> node.elements[k].name,
                             declaredType |-> node.elements[k].isTypeOnly]]
                    ELSE [k \in 1..Len(records.exports) |->
                            [name |-> records.exports[k], declaredType |-> FALSE]]
                         \o [k \in 1..Len(records.typeExports) |->
                            [name |-> records.typeExports[k], declaredType |-> TRUE]]
         IN  own \o ExportOccurrences(ChildNodes(node)) \o ExportOccurrences(Tail(nodes))

NamesOf(occurrences) == [k \in 1..Len(occurrences) |-> occurrences[k].name]

\* the clause with the value names in file order, then the type names in file order
ClauseInFileOrder(ast) ==
    LET occurrences == ExportOccurrences(<< ast >>)
        IsType(o) == o.declaredType \/ MatchesTypePattern(o.name)
        IsValue(o) == ~IsType(o)
    IN  NamesOf(SelectSeq(occurrences, IsValue))
        \o TypePrefixed(NamesOf(SelectSeq(occurrences, IsType)))

\* the clause with the value names in file order, then the declared type
\* names in file order, then the value names that match a type pattern in
\* file order
ClauseDeclaredTypesFirst(ast) ==
    LET occurrences == ExportOccurrences(<< ast >>)
        IsDeclaredType(o) == o.declaredType
        IsReclassified(o) == ~o.declaredType /\ MatchesTypePattern(o.name)
        IsValue(o) == ~o.declaredType /\ ~MatchesTypePattern(o.name)
    IN  NamesOf(SelectSeq(occurrences, IsValue))
        \o TypePrefixed(NamesOf(SelectSeq(occurrences, IsDeclaredType)))
        \o TypePrefixed(NamesOf(SelectSeq(occurrences, IsReclassified)))

\* the tree of the file whose readFile the call awaits
CurrentAst(call) ==
    FileNamed(dirs[call.componentsDir], call.componentFiles[call.position]).ast

\* the key of the file whose readFile the call awaits
CurrentComponentName(call) == BaseName(call.componentFiles[call.position])

\* the call awaits readFile of a file that can be read and has export records
AtExportingFile(call) ==
    /\ call.pc = "read"
    /\ CanRead(call.componentsDir, call.componentFiles[call.position])
    /\ ExportOccurrences(<< CurrentAst(call) >>) # << >>

(***************************************************************************)
(* C21 as stated: in each file's clause the plain specifiers come before   *)
(* the type specifiers, the value names and the type names each keep the   *)
(* order in which they occur in the file, and there are as many specifiers *)
(* as export records.                                                      *)
(***************************************************************************)
C21_ClauseInFileOrder ==
    /\ [][\A s \in Slots :
            (AtExportingFile(calls[s]) /\ calls'[s] # calls[s]) =>
                /\ MapHas(calls'[s].componentExports, CurrentComponentName(calls[s]))
                /\ MapGet(calls'[s].componentExports, CurrentComponentName(calls[s]))
                      = ClauseInFileOrder(CurrentAst(calls[s]))]_vars
    /\ [](\A s \in Slots :
            Composed(calls[s]) =>
                LET call == calls[s]
                    read == OutputStatements(call)
                IN  \A p \in ProcessedPositions(call) :
                        Surviving(call, p) =>
                            \E k \in StatementsOf(call, read, call.sources[p].name) :
                                read[k].specifiers = ClauseInFileOrder(call.sources[p].ast))

(***************************************************************************)
(* C21 amended: in each file's clause the plain specifiers come before the *)
(* type specifiers; the value names keep their file order; the type        *)
(* specifiers are the declared type names in file order followed by the    *)
(* value names that match a type pattern in file order; duplicates are     *)
(* kept, one specifier per export record.                                  *)
(***************************************************************************)
C21_ClauseDeclaredTypesFirst ==
    /\ [][\A s \in Slots :
            (AtExportingFile(calls[s]) /\ calls'[s] # calls[s]) =>
                /\ MapHas(calls'[s].componentExports, CurrentComponentName(calls[s]))
                /\ MapGet(calls'[s].componentExports, CurrentComponentName(calls[s]))
                      = ClauseDeclaredTypesFirst(CurrentAst(calls[s]))
                /\ Len(MapGet(calls'[s].componentExports, CurrentComponentName(calls[s])))
                      = Len(extractExports(CurrentAst(calls[s])).exports)
                        + Len(extractExports(CurrentAst(calls[s])).typeExports)]_vars
    /\ [](\A s \in Slots :
            Composed(calls[s]) =>
                LET call == calls[s]
                    read == OutputStatements(call)
                IN  \A p \in ProcessedPositions(call) :
                        Surviving(call, p) =>
                            \E k \in StatementsOf(call, read, call.sources[p].name) :
                                read[k].specifiers = ClauseDeclaredTypesFirst(call.sources[p].ast))

\* the clause of format.ts keeps the three records of the overloaded
\* function and lists the declared type before the reclassified value
C21_Witness ==
    \E s \in Slots :
        /\ Composed(calls[s])
        /\ \E k \in 1..Len(OutputStatements(calls[s])) :
              /\ OutputStatements(calls[s])[k].module = "./format"
              /\ OutputStatements(calls[s])[k].specifiers
                    = << "format", "format", "format", "type FormatKind", "type formatOptions" >>

(***************************************************************************)
(* C22: for every configured outputFile name, the file a call writes is    *)
(* not scanned as a component source by a later call: over unchanged       *)
(* source files a later non-dry-run call composes the text of the earlier  *)
(* call, and no statement's module specifier names the output file.        *)
(***************************************************************************)
\* the files of a listing other than the output file
SourcesOf(listing) ==
    LET IsSource(file) == file.name # fullConfig.outputFile
    IN  SelectSeq(listing, IsSource)

\* C22: the output file is never scanned, so the composed text depends only on the other files of the directory
C22_OutputNeverScanned ==
    \A s \in Slots :
        (Composed(calls[s]) /\ ~fullConfig.dryRun) =>
            LET call == calls[s]
                read == OutputStatements(call)
            IN  /\ \A k \in 1..Len(read) :
                      BaseOfModule(call, read[k].module) # BaseName(fullConfig.outputFile)
                /\ (/\ previous.valid
                    /\ previous.undisturbed /\ Undisturbed(call)
                    /\ previous.older = call.older
                    /\ previous.useExplicitExtensions = call.useExplicitExtensions
                    /\ SourcesOf(previous.listing) = SourcesOf(StartListing(call)))
                      => call.indexContent = previous.content

\* C22 holds when the output file has the default name
C22_HoldsForDefaultOutputFile ==
    fullConfig.outputFile = defaultConfig.outputFile => C22_OutputNeverScanned

\* the second call scans the file the first call wrote and re-exports from it
C22_OutputRescanned ==
    \E s \in Slots :
        /\ Composed(calls[s])
        /\ runs = 2
        /\ ~fullConfig.dryRun
        /\ previous.valid
        /\ OutputFileOf(previous.listing) = << >>
        /\ OutputFileOf(StartListing(calls[s])) # << >>
        /\ OutputFileOf(StartListing(calls[s]))[1].text = previous.content
        /\ calls[s].indexContent # previous.content
        /\ \E k \in 1..Len(OutputStatements(calls[s])) :
              BaseOfModule(calls[s], OutputStatements(calls[s])[k].module)
                  = BaseName(fullConfig.outputFile)

(***************************************************************************)
(* C23: the exit code after each call of generateIndex reflects that call  *)
(* only: 1 after a call that failed with a filesystem error, 0 after a     *)
(* call that succeeded, also when the call before it failed.               *)
(***************************************************************************)
C23_ExitCodeOfThisCall ==
    [][\A s \in Slots :
          (calls[s].pc # "done" /\ calls'[s].pc = "done")
              => exitCode' = (IF CallFailed(calls'[s]) THEN 1 ELSE 0)]_vars

\* C23 holds for the first call of a process
C23_HoldsForFirstCall ==
    [][runs = 1 =>
          \A s \in Slots :
              (calls[s].pc # "done" /\ calls'[s].pc = "done")
                  => exitCode' = (IF CallFailed(calls'[s]) THEN 1 ELSE 0)]_vars

\* a call that wrote the output file without any error report ends with exit code 1
C23_StaleExitCode ==
    \E s \in Slots :
        /\ calls[s].pc = "done"
        /\ runs = 2
        /\ calls[s].errors = << >>
        /\ calls[s].generated
        /\ calls[s].writes = 1
        /\ exitCode = 1

(***************************************************************************)
(* C24: with the default include and exclude patterns every .ts / .tsx     *)
(* file of the scanned directory is processed unless it is a declaration   *)
(* file, a test file, a story file or the output file itself.              *)
(***************************************************************************)
\* the file names the claim allows the filter to drop
DroppedByDesign(name) ==
    \/ EndsWith(name, ".d.ts")
    \/ EndsWith(name, ".test.ts") \/ EndsWith(name, ".test.tsx")
    \/ EndsWith(name, ".stories.ts") \/ EndsWith(name, ".stories.tsx")
    \/ name = fullConfig.outputFile

\* C24: the only .ts / .tsx files left out of the scan are .d.ts, test and story files and the output file
C24_OnlyDesignatedFilesDropped ==
    \A s \in Slots :
        (/\ Composed(calls[s])
         /\ fullConfig.include = DefaultInclude /\ fullConfig.exclude = DefaultExclude) =>
            /\ calls[s].processedCount = Len(calls[s].componentFiles)
            /\ \A k \in 1..Len(calls[s].files) :
                  ((EndsWith(calls[s].files[k], ".ts") \/ EndsWith(calls[s].files[k], ".tsx"))
                      /\ ~DroppedByDesign(calls[s].files[k]))
                    => calls[s].files[k] \in Range(calls[s].componentFiles)

\* C24 fails only for names that end in "index.ts"
C24_HoldsWithoutIndexSuffix ==
    (\A s \in Slots : \A k \in 1..Len(calls[s].files) : ~EndsWith(calls[s].files[k], "index.ts"))
        => C24_OnlyDesignatedFilesDropped

\* myindex.ts is in the scanned directory and was not processed, while
\* card.tsx was
C24_ComponentDropped ==
    \E s \in Slots :
        /\ Composed(calls[s])
        /\ fullConfig.outputFile = "index.ts"
        /\ "myindex.ts" \in Range(calls[s].files)
        /\ "myindex.ts" \notin Range(calls[s].componentFiles)
        /\ "card.tsx" \in Range(calls[s].componentFiles)
        /\ \A k \in 1..Len(OutputStatements(calls[s])) :
              OutputStatements(calls[s])[k].module # "./myindex"

====
